---- MODULE Spec2Model ----
(***************************************************************************)
(* A model of the execution context of async-graphql (src/src/context.rs)  *)
(* and of the helpers it calls.  Each part of the context has its own      *)
(* specification over its own variables:                                   *)
(*   SpecData     the type-indexed Data maps and data/data_opt/            *)
(*                data_unchecked                                           *)
(*   SpecHeaders  the outgoing-header overlay behind its spin lock         *)
(*   SpecContext  the context tree: with_field, with_index,                *)
(*                with_selection_set and the shared resolve-id counter     *)
(*   SpecSkip     is_skip on the directive lists of a query, with the      *)
(*                variables of the operation                               *)
(*   SpecResolve  the concurrent resolution of the fields of a selection   *)
(*                set and of the elements of a list                        *)
(*   SpecParam    param_value on the arguments of a field                  *)
(*   SpecConv     the conversions of Value and ConstValue: JSON and        *)
(*                literal rendering                                        *)
(*   SpecDeser    the deserializer that substitutes variables              *)
(*   SpecCache    the cache-control visitor                                *)
(*   SpecName     Name::is_valid and Name::new                             *)
(*   SpecSel      the iterator of ctx.field().selection_set()              *)
(*   SpecVal      the validator attribute of the derive macros             *)
(*   SpecIface    the resolve_field InterfaceImpl generates                *)
(*   SpecMu       MaybeUndefined and its serde implementations             *)
(* In each of them the variables of the other parts stay at their initial  *)
(* value; Spec lets every part step.                                       *)
(***************************************************************************)
EXTENDS Integers, Sequences, FiniteSets, TLC

VARIABLES
    schema_data,     \* SchemaEnv.data : Data, as a set of (key, boxed value) entries
    ctx_data,        \* QueryEnvInner.ctx_data : Data
    data_phase,      \* "build" while the two maps are filled, "exec" while fields resolve
    inserted,        \* history: the Data::insert calls made so far, in order
    data_res,        \* data_res[fn][D]: what fn::<D>() last returned, or NotCalled
    http_headers,    \* QueryEnvInner.http_headers: header name -> its values, in order
    hdr_lock,        \* the tasks holding a guard of the spin::Mutex around http_headers
    hdr_pc,          \* hdr_pc[t]: where resolver task t is in its header call
    hdr_call,        \* hdr_call[t]: the call task t is making, with what it read so far
    hdr_hist,        \* history: the calls that took effect, in the order they did
    hdr_last,        \* history: the last call that took effect and the map before it
    ctxs,            \* the ContextBase values created so far, root first
    inc_resolve_id,  \* the AtomicUsize every context of the query refers to
    ctx_pc,          \* ctx_pc[t]: where task t is in its with_field / with_index call
    ctx_call,        \* ctx_call[t]: the descent task t is making and what fetch_add gave it
    ctx_made,        \* history: ctx_made[k] is the call that returned ctxs[k]
    ctx_path,        \* the last to_string_vec / Display call on a path node, with what it gave
    directives,      \* the directive list is_skip is called on
    variable_definitions,  \* query_env.operation.node.variable_definitions
    variables,       \* query_env.variables: name -> Option of the supplied value
    skip_res,        \* what is_skip returned and how many directives it looked at
    param_field,     \* the field of the query a field context stands at (ctx.item)
    param_res,       \* the last param_value call: its inputs, result and the calls it made
    conv_type,       \* the type converted: "ConstValue" or "Value"
    conv_input,      \* Some(the value at hand) or None when a JSON value is given
    conv_json,       \* the JSON value given, or what into_json returned
    conv_back,       \* what from_json returned on the JSON value
    conv_text,       \* what to_string returned on the value
    de_target,       \* the type deserialized from a Value
    de_value,        \* the Value a ValueDeserializer wraps
    de_variables,    \* the lookup function: name -> Option of a ConstValue
    de_out,          \* what deserializing returned and the names it looked up
    cache_control,   \* the aggregate CacheControlCalculate folds into (*self.cache_control)
    cc_entered,      \* history: the selection sets and fields the visitor entered, in order
    name_input,      \* the string Name::is_valid and Name::new are called on
    name_valid,      \* Some(what Name::is_valid returned), None before the call
    name_new,        \* what Name::new returned, NotCalled before the call
    sel_fragments,   \* query_env.fragments: fragment name -> the items of its selection set
    sel_items,       \* the items of the selection set of the current field (ctx.item)
    sel_iter,        \* Some(SelectionFieldsIter.iter, innermost last) once selection_set() ran
    sel_yielded,     \* history: what each next() call on the iterator returned, in order
    val_meta,        \* the syn::Meta of a validator attribute
    val_single,      \* what SingleValidator::from_meta returned on it, NotCalled before
    val_expr,        \* what generate_validator returned on that, NotCalled before
    iface_self,      \* the Node resolve_field is called on: the id of the object it wraps
    iface_item,      \* ctx.item of the field context: name, alias and arguments of the field
    iface_out,       \* what resolve_field returned and the steps it took, IfaceNotCalled before
    mu_type,         \* the T of MaybeUndefined<T>: i32 or Option<i32>
    mu_in_struct,    \* whether the value is the field a of struct A { a: MaybeUndefined<T> }
    mu_value,        \* Some(the MaybeUndefined value at hand) or None when JSON is given
    mu_json,         \* the JSON given, or what serializing the value gave; NotCalled before
    mu_back,         \* what deserializing the JSON gave, NotCalled before
    res_kind,        \* "object": a selection set is resolved; "list": a list value is
    res_input,       \* the response keys of the fields in selection order / the list value
    res_futures,     \* the futures joined, in the order they were created: what each resolves
    res_slots,       \* res_slots[i]: Some(output of future i) once it has completed
    res_completed,   \* history: the futures in the order they completed
    res_out          \* the assembled response value, once every future has completed

dataVars == <<schema_data, ctx_data, data_phase, inserted, data_res>>

hdrVars == <<http_headers, hdr_lock, hdr_pc, hdr_call, hdr_hist, hdr_last>>

ctxVars == <<ctxs, inc_resolve_id, ctx_pc, ctx_call, ctx_made, ctx_path>>

skipVars == <<directives, variable_definitions, variables, skip_res>>

paramVars == <<param_field, param_res>>

convVars == <<conv_type, conv_input, conv_json, conv_back, conv_text>>

deVars == <<de_target, de_value, de_variables, de_out>>

cacheVars == <<cache_control, cc_entered>>

nameVars == <<name_input, name_valid, name_new>>

selVars == <<sel_fragments, sel_items, sel_iter, sel_yielded>>

valVars == <<val_meta, val_single, val_expr>>

ifaceVars == <<iface_self, iface_item, iface_out>>

muVars == <<mu_type, mu_in_struct, mu_value, mu_json, mu_back>>

resVars == <<res_kind, res_input, res_futures, res_slots, res_completed, res_out>>

vars ==
    <<dataVars, hdrVars, ctxVars, skipVars, paramVars, convVars, deVars,
      cacheVars, nameVars, selVars, valVars, ifaceVars, muVars, resVars>>

\* What a step of one part leaves alone: the variables of the other parts.
notData ==
    <<hdrVars, ctxVars, skipVars, paramVars, resVars, convVars, deVars,
      cacheVars, nameVars, selVars, valVars, ifaceVars, muVars>>

notHdr ==
    <<dataVars, ctxVars, skipVars, paramVars, resVars, convVars, deVars,
      cacheVars, nameVars, selVars, valVars, ifaceVars, muVars>>

notCtx ==
    <<dataVars, hdrVars, skipVars, paramVars, resVars, convVars, deVars,
      cacheVars, nameVars, selVars, valVars, ifaceVars, muVars>>

notSkip ==
    <<dataVars, hdrVars, ctxVars, paramVars, resVars, convVars, deVars,
      cacheVars, nameVars, selVars, valVars, ifaceVars, muVars>>

notRes ==
    <<dataVars, hdrVars, ctxVars, skipVars, paramVars, convVars, deVars,
      cacheVars, nameVars, selVars, valVars, ifaceVars, muVars>>

notConv ==
    <<dataVars, hdrVars, ctxVars, skipVars, paramVars, resVars, deVars,
      cacheVars, nameVars, selVars, valVars, ifaceVars, muVars>>

notDe ==
    <<dataVars, hdrVars, ctxVars, skipVars, paramVars, convVars, resVars,
      cacheVars, nameVars, selVars, valVars, ifaceVars, muVars>>

notParam ==
    <<dataVars, hdrVars, ctxVars, skipVars, resVars, convVars, deVars,
      cacheVars, nameVars, selVars, valVars, ifaceVars, muVars>>

notCache ==
    <<dataVars, hdrVars, ctxVars, skipVars, paramVars, convVars, deVars,
      resVars, nameVars, selVars, valVars, ifaceVars, muVars>>

notName ==
    <<dataVars, hdrVars, ctxVars, skipVars, paramVars, convVars, deVars,
      cacheVars, resVars, selVars, valVars, ifaceVars, muVars>>

notSel ==
    <<dataVars, hdrVars, ctxVars, skipVars, paramVars, convVars, deVars,
      cacheVars, nameVars, resVars, valVars, ifaceVars, muVars>>

notVal ==
    <<dataVars, hdrVars, ctxVars, skipVars, paramVars, convVars, deVars,
      cacheVars, nameVars, selVars, resVars, ifaceVars, muVars>>

notIface ==
    <<dataVars, hdrVars, ctxVars, skipVars, paramVars, convVars, deVars,
      cacheVars, nameVars, selVars, valVars, resVars, muVars>>

notMu ==
    <<dataVars, hdrVars, ctxVars, skipVars, paramVars, convVars, deVars,
      cacheVars, nameVars, selVars, valVars, ifaceVars, resVars>>

(***************************************************************************)
(* Option<T>                                                               *)
(***************************************************************************)
None == [some |-> FALSE]

Some(x) == [some |-> TRUE, v |-> x]

(***************************************************************************)
(* Data (context.rs:103-122): FnvHashMap<TypeId, Box<dyn Any>>.            *)
(* A boxed value carries its concrete type, which downcast_ref tests.      *)
(***************************************************************************)
MaxInserts == 3

DataTypes == {"A", "B"}

DataVals == {1, 2}

DataScopes == {"schema", "query"}

TypeIdOf(D) == <<"TypeId", D>>

TypeName(D) == D

Box(D, x) == [type |-> D, val |-> x]

\* HashMap::insert keeping the old entry beside the new one.
MapInsertKeepOld(map, key, value) == map \cup {[key |-> key, value |-> value]}

\* HashMap::insert: the entry of an equal key is replaced.
MapInsert(map, key, value) ==
    {e \in map : e.key # key} \cup {[key |-> key, value |-> value]}

\* HashMap::get
MapGet(map, key) ==
    IF \E e \in map : e.key = key
    THEN Some((CHOOSE e \in map : e.key = key).value)
    ELSE None

\* Data::insert::<D>(data)
DataInsert(map, D, x) == MapInsert(map, TypeIdOf(D), Box(D, x))

\* <dyn Any>::downcast_ref::<D>()
DowncastRef(boxed, D) == IF boxed.type = D THEN Some(boxed.val) ELSE None

\* data_opt looking in the schema-wide map first.
DataOptSchemaFirst(qdata, sdata, D) ==
    LET s == MapGet(sdata, TypeIdOf(D))
        found == IF s.some THEN s ELSE MapGet(qdata, TypeIdOf(D))
    IN  IF found.some THEN DowncastRef(found.v, D) ELSE None

\* ContextBase::data_opt::<D>()
DataOpt(qdata, sdata, D) ==
    LET q == MapGet(qdata, TypeIdOf(D))
        found == IF q.some THEN q ELSE MapGet(sdata, TypeIdOf(D))
    IN  IF found.some THEN DowncastRef(found.v, D) ELSE None

\* format!("Data ... does not exist.", type_name::<D>()), as its parts (the
\* quotes around the type name are left out of the literal parts).
DataErrorMessage(D) == <<"Data ", TypeName(D), " does not exist.">>

\* data falling back to a default value in place of the error.
DataOrDefault(qdata, sdata, D) ==
    LET r == DataOpt(qdata, sdata, D)
    IN  IF r.some THEN [kind |-> "Ok", v |-> r.v] ELSE [kind |-> "Ok", v |-> 0]

\* ContextBase::data::<D>(): Option::ok_or_else
Data(qdata, sdata, D) ==
    LET r == DataOpt(qdata, sdata, D)
    IN  IF r.some THEN [kind |-> "Ok", v |-> r.v]
        ELSE [kind |-> "Err", message |-> DataErrorMessage(D)]

\* ContextBase::data_unchecked::<D>(): Option::unwrap_or_else(|| panic!(..))
DataUnchecked(qdata, sdata, D) ==
    LET r == DataOpt(qdata, sdata, D)
    IN  IF r.some THEN [kind |-> "Ok", v |-> r.v]
        ELSE [kind |-> "Panic", message |-> DataErrorMessage(D)]

DataFns == {"data", "data_opt", "data_unchecked"}

NotCalled == [kind |-> "NotCalled"]

DataInit ==
    /\ schema_data = {}
    /\ ctx_data = {}
    /\ data_phase = "build"
    /\ inserted = <<>>
    /\ data_res = [f \in DataFns |-> [D \in DataTypes |-> NotCalled]]

\* The schema is built: Data::insert on the schema-wide map.
SchemaInsert(D, x) ==
    /\ data_phase = "build"
    /\ Len(inserted) < MaxInserts
    /\ schema_data' = DataInsert(schema_data, D, x)
    /\ inserted' = Append(inserted, [scope |-> "schema", type |-> D, val |-> x])
    /\ UNCHANGED <<ctx_data, data_phase, data_res>>
    /\ UNCHANGED notData

\* The request is built: Data::insert on the per-query map.
QueryInsert(D, x) ==
    /\ data_phase = "build"
    /\ Len(inserted) < MaxInserts
    /\ ctx_data' = DataInsert(ctx_data, D, x)
    /\ inserted' = Append(inserted, [scope |-> "query", type |-> D, val |-> x])
    /\ UNCHANGED <<schema_data, data_phase, data_res>>
    /\ UNCHANGED notData

\* QueryEnv::new / create_context: the maps are shared read-only from here on.
StartExec ==
    /\ data_phase = "build"
    /\ data_phase' = "exec"
    /\ UNCHANGED <<schema_data, ctx_data, inserted, data_res>>
    /\ UNCHANGED notData

CallDataOpt(D) ==
    /\ data_phase = "exec"
    /\ data_res' = [data_res EXCEPT !["data_opt"][D] =
                        [kind |-> "Opt", opt |-> DataOpt(ctx_data, schema_data, D)]]
    /\ UNCHANGED <<schema_data, ctx_data, data_phase, inserted>>
    /\ UNCHANGED notData

CallData(D) ==
    /\ data_phase = "exec"
    /\ data_res' = [data_res EXCEPT !["data"][D] = Data(ctx_data, schema_data, D)]
    /\ UNCHANGED <<schema_data, ctx_data, data_phase, inserted>>
    /\ UNCHANGED notData

CallDataUnchecked(D) ==
    /\ data_phase = "exec"
    /\ data_res' = [data_res EXCEPT !["data_unchecked"][D] =
                        DataUnchecked(ctx_data, schema_data, D)]
    /\ UNCHANGED <<schema_data, ctx_data, data_phase, inserted>>
    /\ UNCHANGED notData

DataNext ==
    \/ \E D \in DataTypes, x \in DataVals : SchemaInsert(D, x)
    \/ \E D \in DataTypes, x \in DataVals : QueryInsert(D, x)
    \/ StartExec
    \/ \E D \in DataTypes : CallDataOpt(D)
    \/ \E D \in DataTypes : CallData(D)
    \/ \E D \in DataTypes : CallDataUnchecked(D)

DataIdle ==
    /\ schema_data = {}
    /\ ctx_data = {}
    /\ data_phase = "exec"
    /\ inserted = <<>>
    /\ data_res = [f \in DataFns |-> [D \in DataTypes |-> NotCalled]]

(***************************************************************************)
(* The outgoing-header overlay (context.rs:324, 473-565): a                *)
(* spin::Mutex<HeaderMap<String>> shared by the resolver tasks of one      *)
(* query.  A call locks, works on the map and drops the guard.  The map    *)
(* operation itself is not atomic in memory: it first finds the entry of   *)
(* the name and then writes it, so it is modelled as a read step and a     *)
(* write step, both inside the critical section.                           *)
(***************************************************************************)
MaxHdrCalls == 3

HdrTasks == {"t1", "t2"}

HeaderNames == {"Set-Cookie", "set-cookie", "Custom-Header"}

HeaderValues == {"1234", "Hello World"}

\* IntoHeaderName / AsHeaderName: header names compare case-insensitively;
\* HeaderName holds the lower-case form.
HeaderNameOf(name) ==
    CASE name = "Set-Cookie" -> "set-cookie"
      [] name = "set-cookie" -> "set-cookie"
      [] name = "Custom-Header" -> "custom-header"

HeaderKeys == {HeaderNameOf(n) : n \in HeaderNames}

HdrFns == {"http_header_contains", "insert_http_header", "append_http_header"}

\* spin::Mutex::lock entering although a guard is alive.
LockAlways(guards) == TRUE

\* spin::Mutex::lock: the spin loop leaves only when no guard is alive.
LockFree(guards) == guards = {}

\* HeaderMap::contains_key on the values found for the name.
MapContainsKey(found) == [vals |-> found, ret |-> found # <<>>]

\* HeaderMap::insert keeping the previous values.
MapInsertKeepsValues(found, value) ==
    [vals |-> Append(found, value),
     ret |-> IF found = <<>> THEN None ELSE Some(Head(found))]

\* HeaderMap::insert on the values found for the name: all of them are
\* removed, the first is returned.
HeaderMapInsert(found, value) ==
    [vals |-> <<value>>,
     ret |-> IF found = <<>> THEN None ELSE Some(Head(found))]

\* HeaderMap::append dropping the previous values.
MapAppendReplaces(found, value) == [vals |-> <<value>>, ret |-> found # <<>>]

\* HeaderMap::append on the values found for the name.
HeaderMapAppend(found, value) == [vals |-> Append(found, value), ret |-> found # <<>>]

\* The map operation of a call, on the values it found.
HeaderOp(fn, found, value) ==
    CASE fn = "http_header_contains" -> MapContainsKey(found)
      [] fn = "insert_http_header" -> HeaderMapInsert(found, value)
      [] fn = "append_http_header" -> HeaderMapAppend(found, value)

NoCall == [fn |-> "none"]

HdrInit ==
    /\ http_headers = [k \in HeaderKeys |-> <<>>]
    /\ hdr_lock = {}
    /\ hdr_pc = [t \in HdrTasks |-> "resolving"]
    /\ hdr_call = [t \in HdrTasks |-> NoCall]
    /\ hdr_hist = <<>>
    /\ hdr_last = NoCall

HdrIdle == HdrInit

HdrStarted == Len(hdr_hist) + Cardinality({t \in HdrTasks : hdr_pc[t] # "resolving"})

\* A resolver calls http_header_contains(name), insert_http_header(name,
\* value) or append_http_header(name, value).
HdrCall(t, fn, name, value) ==
    /\ hdr_pc[t] = "resolving"
    /\ HdrStarted < MaxHdrCalls
    /\ fn = "http_header_contains" => value = "1234"   \* takes no value: one stands in
    /\ hdr_call' = [hdr_call EXCEPT ![t] = [fn |-> fn, name |-> name, value |-> value]]
    /\ hdr_pc' = [hdr_pc EXCEPT ![t] = "lock"]
    /\ UNCHANGED <<http_headers, hdr_lock, hdr_hist, hdr_last>>
    /\ UNCHANGED notHdr

\* self.query_env.http_headers.lock()
HdrLock(t) ==
    /\ hdr_pc[t] = "lock"
    /\ LockFree(hdr_lock)
    /\ hdr_lock' = hdr_lock \cup {t}
    /\ hdr_pc' = [hdr_pc EXCEPT ![t] = "find"]
    /\ UNCHANGED <<http_headers, hdr_call, hdr_hist, hdr_last>>
    /\ UNCHANGED notHdr

\* The map operation finds the entry of the name.
HdrFind(t) ==
    /\ hdr_pc[t] = "find"
    /\ hdr_call' = [hdr_call EXCEPT ![t] =
            [fn |-> hdr_call[t].fn, name |-> hdr_call[t].name, value |-> hdr_call[t].value,
             found |-> http_headers[HeaderNameOf(hdr_call[t].name)]]]
    /\ hdr_pc' = [hdr_pc EXCEPT ![t] = "write"]
    /\ UNCHANGED <<http_headers, hdr_lock, hdr_hist, hdr_last>>
    /\ UNCHANGED notHdr

\* The map operation writes the entry and yields the return value.
HdrWrite(t) ==
    /\ hdr_pc[t] = "write"
    /\ LET c == hdr_call[t]
           r == HeaderOp(c.fn, c.found, c.value)
           done == [fn |-> c.fn, name |-> c.name, value |-> c.value, ret |-> r.ret]
       IN  /\ http_headers' = [http_headers EXCEPT ![HeaderNameOf(c.name)] = r.vals]
           /\ hdr_hist' = Append(hdr_hist, done)
           /\ hdr_last' = [fn |-> c.fn, name |-> c.name, value |-> c.value,
                           ret |-> r.ret, before |-> http_headers]
    /\ hdr_pc' = [hdr_pc EXCEPT ![t] = "unlock"]
    /\ UNCHANGED <<hdr_lock, hdr_call>>
    /\ UNCHANGED notHdr

\* The guard is dropped at the end of the call's body; the call returns.
HdrUnlock(t) ==
    /\ hdr_pc[t] = "unlock"
    /\ hdr_lock' = hdr_lock \ {t}
    /\ hdr_pc' = [hdr_pc EXCEPT ![t] = "resolving"]
    /\ hdr_call' = [hdr_call EXCEPT ![t] = NoCall]
    /\ UNCHANGED <<http_headers, hdr_hist, hdr_last>>
    /\ UNCHANGED notHdr

HdrNext ==
    \/ \E t \in HdrTasks, fn \in HdrFns, name \in HeaderNames, value \in HeaderValues :
           HdrCall(t, fn, name, value)
    \/ \E t \in HdrTasks : HdrLock(t)
    \/ \E t \in HdrTasks : HdrFind(t)
    \/ \E t \in HdrTasks : HdrWrite(t)
    \/ \E t \in HdrTasks : HdrUnlock(t)

(***************************************************************************)
(* The context tree (context.rs:136-159, 269-409, 629-644).  A context is  *)
(* kept in ctxs; a reference to the path node of a context is the index    *)
(* of that context.  Each record also says which call made it (via), a     *)
(* history field no code reads.  The counter is shared by the tasks that   *)
(* resolve sibling fields: fetch_add is the one step of a descent that     *)
(* touches shared memory, the child is built from its result afterwards.   *)
(***************************************************************************)
MaxCtxs == 4

CtxTasks == {"t1", "t2"}

\* Field nodes of the query: a name and an optional alias.
Fields ==
    {[name |-> "obj", alias |-> None], [name |-> "id", alias |-> Some("id3")]}

Indexes == {0, 12}

SelectionSets == {"s1"}

FieldItem(f) == [kind |-> "Field", node |-> f]

SelectionSetItem(ss) == [kind |-> "SelectionSet", node |-> ss]

\* Field::response_key: the alias if there is one, else the name.
ResponseKey(f) == IF f.alias.some THEN f.alias.v ELSE f.name

SegmentName(name) == [kind |-> "Name", name |-> name]

SegmentIndex(idx) == [kind |-> "Index", idx |-> idx]

\* A root that takes the first id the counter gives out.
RootResolveIdOne == [parent |-> None, current |-> 1]

\* ResolveId::root()
RootResolveId == [parent |-> None, current |-> 0]

\* A plain load in place of the read-modify-write.
LoadOnly(counter, n) == [stored |-> counter, returned |-> counter]

\* AtomicUsize::fetch_add(n, Relaxed): one atomic read-modify-write that
\* returns the previous value.
FetchAdd(counter, n) == [stored |-> counter + n, returned |-> counter]

\* A child id that takes over the parent of the creating context.
ChildResolveIdSameParent(ctx, fetched) ==
    [parent |-> ctx.resolve_id.parent, current |-> fetched + 1]

\* get_child_resolve_id, after the fetch_add returned fetched.
ChildResolveId(ctx, fetched) ==
    [parent |-> Some(ctx.resolve_id.current), current |-> fetched + 1]

\* self.path_node.as_ref(): a reference to the path node of context i.
PathNodeRef(i) == IF ctxs[i].path_node.some THEN Some(i) ELSE None

\* The child with_field builds.
WithFieldCtx(i, f, fetched) ==
    [path_node |-> Some([parent |-> PathNodeRef(i), segment |-> SegmentName(ResponseKey(f))]),
     item |-> FieldItem(f),
     resolve_id |-> ChildResolveId(ctxs[i], fetched),
     via |-> "with_field"]

\* The child with_index builds.
WithIndexCtx(i, idx, fetched) ==
    [path_node |-> Some([parent |-> PathNodeRef(i), segment |-> SegmentIndex(idx)]),
     item |-> ctxs[i].item,
     resolve_id |-> ChildResolveId(ctxs[i], fetched),
     via |-> "with_index"]

\* A with_selection_set that takes the id after the current one.
WithSelectionSetCtxNextId(i, ss) ==
    [path_node |-> ctxs[i].path_node,
     item |-> SelectionSetItem(ss),
     resolve_id |-> [parent |-> Some(ctxs[i].resolve_id.current),
                     current |-> ctxs[i].resolve_id.current + 1],
     via |-> "with_selection_set"]

\* The context with_selection_set builds.
WithSelectionSetCtx(i, ss) ==
    [path_node |-> ctxs[i].path_node,
     item |-> SelectionSetItem(ss),
     resolve_id |-> ctxs[i].resolve_id,
     via |-> "with_selection_set"]

\* QueryEnv::create_context for the operation's selection set.
RootCtx ==
    [path_node |-> None,
     item |-> SelectionSetItem("s1"),
     resolve_id |-> RootResolveId,
     via |-> "root"]

NoDescent == [fn |-> "none"]

\* <usize as Display>::fmt of one digit.
Digit(d) == <<"0", "1", "2", "3", "4", "5", "6", "7", "8", "9">>[d + 1]

\* idx.to_string(), write!(f, "{}", *idx): the decimal digits of idx.
RECURSIVE UsizeToString(_)
UsizeToString(n) == IF n < 10 THEN Digit(n) ELSE UsizeToString(n \div 10) \o Digit(n % 10)

\* The walk that visits the segment of the node before those of its parents.
RECURSIVE TryForEachRefLeafFirst(_)
TryForEachRefLeafFirst(node) ==
    <<node.segment>> \o
    (IF node.parent.some
     THEN TryForEachRefLeafFirst(ctxs[node.parent.v].path_node.v)
     ELSE <<>>)

\* QueryPathNode::try_for_each_ref: the segments f is applied to, in order;
\* the parent of a node is the path node of the context it refers to.
RECURSIVE TryForEachRef(_)
TryForEachRef(node) ==
    (IF node.parent.some
     THEN TryForEachRef(ctxs[node.parent.v].path_node.v)
     ELSE <<>>) \o <<node.segment>>

\* The string to_string_vec pushes, and Display writes, for a segment.
SegmentString(s) == IF s.kind = "Name" THEN s.name ELSE UsizeToString(s.idx)

\* QueryPathNode::to_string_vec
ToStringVec(node) ==
    LET segments == TryForEachRef(node)
    IN  [k \in 1..Len(segments) |-> SegmentString(segments[k])]

\* What fmt has written after the first n segments: a "." before every
\* segment but the first.
RECURSIVE FmtUpTo(_, _)
FmtUpTo(segments, n) ==
    IF n = 0 THEN ""
    ELSE FmtUpTo(segments, n - 1) \o (IF n = 1 THEN "" ELSE ".")
             \o SegmentString(segments[n])

\* <QueryPathNode as Display>::fmt
PathDisplay(node) == FmtUpTo(TryForEachRef(node), Len(TryForEachRef(node)))

NoPathCall == [on |-> 0]

CtxInit ==
    /\ ctxs = <<RootCtx>>
    /\ inc_resolve_id = 0
    /\ ctx_pc = [t \in CtxTasks |-> "resolving"]
    /\ ctx_call = [t \in CtxTasks |-> NoDescent]
    /\ ctx_made = <<[fn |-> "root"]>>
    /\ ctx_path = NoPathCall

CtxIdle == CtxInit

CtxStarted == Len(ctxs) + Cardinality({t \in CtxTasks : ctx_pc[t] # "resolving"})

\* with_field(field) on context i, up to and including the fetch_add of
\* get_child_resolve_id.
WithField(t, i, f) ==
    /\ ctx_pc[t] = "resolving"
    /\ CtxStarted < MaxCtxs
    /\ LET r == FetchAdd(inc_resolve_id, 1)
       IN  /\ inc_resolve_id' = r.stored
           /\ ctx_call' = [ctx_call EXCEPT ![t] =
                  [fn |-> "with_field", on |-> i, arg |-> f, fetched |-> r.returned]]
    /\ ctx_pc' = [ctx_pc EXCEPT ![t] = "build"]
    /\ UNCHANGED <<ctxs, ctx_made, ctx_path>>
    /\ UNCHANGED notCtx

\* with_index(idx) on context i, a context of a selection set, up to and
\* including the fetch_add of get_child_resolve_id.
WithIndex(t, i, idx) ==
    /\ ctx_pc[t] = "resolving"
    /\ CtxStarted < MaxCtxs
    /\ ctxs[i].item.kind = "SelectionSet"
    /\ LET r == FetchAdd(inc_resolve_id, 1)
       IN  /\ inc_resolve_id' = r.stored
           /\ ctx_call' = [ctx_call EXCEPT ![t] =
                  [fn |-> "with_index", on |-> i, arg |-> idx, fetched |-> r.returned]]
    /\ ctx_pc' = [ctx_pc EXCEPT ![t] = "build"]
    /\ UNCHANGED <<ctxs, ctx_made, ctx_path>>
    /\ UNCHANGED notCtx

\* The rest of with_field / with_index: the child is built and returned.
BuildChild(t) ==
    /\ ctx_pc[t] = "build"
    /\ LET c == ctx_call[t]
       IN  ctxs' = Append(ctxs,
                      IF c.fn = "with_field"
                      THEN WithFieldCtx(c.on, c.arg, c.fetched)
                      ELSE WithIndexCtx(c.on, c.arg, c.fetched))
    /\ ctx_pc' = [ctx_pc EXCEPT ![t] = "resolving"]
    /\ ctx_made' = Append(ctx_made, [fn |-> ctx_call[t].fn, on |-> ctx_call[t].on,
                                      arg |-> ctx_call[t].arg])
    /\ ctx_call' = [ctx_call EXCEPT ![t] = NoDescent]
    /\ UNCHANGED <<inc_resolve_id, ctx_path>>
    /\ UNCHANGED notCtx

\* with_selection_set(ss) on context i: no shared state is touched.
WithSelectionSet(t, i, ss) ==
    /\ ctx_pc[t] = "resolving"
    /\ CtxStarted < MaxCtxs
    /\ ctxs' = Append(ctxs, WithSelectionSetCtx(i, ss))
    /\ ctx_made' = Append(ctx_made, [fn |-> "with_selection_set", on |-> i, arg |-> ss])
    /\ UNCHANGED <<inc_resolve_id, ctx_pc, ctx_call, ctx_path>>
    /\ UNCHANGED notCtx

\* The path of context i is materialized: path_node.to_string_vec() and
\* path_node.to_string().
CallToStringVec(i) ==
    /\ ctxs[i].path_node.some
    /\ ctx_path' = [on |-> i,
                    vec |-> ToStringVec(ctxs[i].path_node.v),
                    display |-> PathDisplay(ctxs[i].path_node.v)]
    /\ UNCHANGED <<ctxs, inc_resolve_id, ctx_pc, ctx_call, ctx_made>>
    /\ UNCHANGED notCtx

CtxNext ==
    \/ \E t \in CtxTasks, i \in 1..Len(ctxs), f \in Fields : WithField(t, i, f)
    \/ \E t \in CtxTasks, i \in 1..Len(ctxs), idx \in Indexes : WithIndex(t, i, idx)
    \/ \E t \in CtxTasks : BuildChild(t)
    \/ \E t \in CtxTasks, i \in 1..Len(ctxs), ss \in SelectionSets :
           WithSelectionSet(t, i, ss)
    \/ \E i \in 1..Len(ctxs) : CallToStringVec(i)

(***************************************************************************)
(* Directive evaluation (context.rs:567-626; parser types/mod.rs:546-562). *)
(* A value is a node with its source position; messages are the tuples of  *)
(* the parts format! joins.                                                *)
(***************************************************************************)
MaxDirectives == 2

Pos(line, column) == [line |-> line, column |-> column]

Positioned(pos, node) == [pos |-> pos, node |-> node]

Boolean(b) == [kind |-> "Boolean", b |-> b]

Number(n) == [kind |-> "Number", n |-> n]

Null == [kind |-> "Null"]

Variable(name) == [kind |-> "Variable", name |-> name]

Ok(x) == [kind |-> "Ok", v |-> x]

\* ServerError::new(message).at(pos)
ServerErrorAt(message, pos) == [kind |-> "Err", message |-> message, pos |-> pos]

VariableNames == {"x"}

\* The argument lists a directive of the query may carry: name and value.
ArgumentLists ==
    {<<>>,
     <<[name |-> "if", node |-> Boolean(TRUE)]>>,
     <<[name |-> "if", node |-> Boolean(FALSE)]>>,
     <<[name |-> "if", node |-> Variable("x")]>>,
     <<[name |-> "if", node |-> Number(1)]>>,
     <<[name |-> "reason", node |-> Boolean(TRUE)]>>,
     <<[name |-> "reason", node |-> Boolean(TRUE)], [name |-> "if", node |-> Boolean(FALSE)]>>,
     <<[name |-> "if", node |-> Boolean(TRUE)], [name |-> "if", node |-> Boolean(FALSE)]>>}

DirectiveNames == {"skip", "include", "ifdef"}

\* The directive the parser yields at place i of a list: the directive is
\* at column 10 * i, its k-th argument value k columns further.
DirectiveAt(i, name, args) ==
    [name |-> name,
     pos |-> Pos(1, 10 * i),
     arguments |-> [k \in 1..Len(args) |->
                       [name |-> args[k].name,
                        value |-> Positioned(Pos(1, 10 * i + k), args[k].node)]]]

DirectiveShapes == DirectiveNames \X ArgumentLists

DirectiveLists ==
    UNION {{[i \in 1..n |-> DirectiveAt(i, shape[i][1], shape[i][2])] :
                shape \in [1..n -> DirectiveShapes]} : n \in 0..MaxDirectives}

\* The variable definitions of the operation: a name and a default value.
VariableDefinitionLists ==
    {<<>>,
     <<[name |-> "x", default_value |-> None]>>,
     <<[name |-> "x", default_value |-> Some(Boolean(TRUE))]>>}

SuppliedValues == {None, Some(Boolean(TRUE)), Some(Boolean(FALSE)), Some(Number(1))}

\* Directive::get_argument: the value of the first argument of that name.
GetArgument(directive, name) ==
    LET hits == {k \in 1..Len(directive.arguments) : directive.arguments[k].name = name}
    IN  IF hits = {} THEN None
        ELSE Some(directive.arguments[CHOOSE k \in hits : \A j \in hits : k <= j].value)

\* VariableDefinition::default_value
DefaultValue(def) == def.default_value

\* A lookup that takes a supplied value whether or not the operation
\* declares the variable.
VarValueOfAnySupplied(name, pos) ==
    IF name \in DOMAIN variables /\ variables[name].some THEN Ok(variables[name].v)
    ELSE ServerErrorAt(<<"Variable ", name, " is not defined.">>, pos)

\* ContextBase::var_value
VarValue(name, pos) ==
    LET hits == {k \in 1..Len(variable_definitions) : variable_definitions[k].name = name}
        def == variable_definitions[CHOOSE k \in hits : \A j \in hits : k <= j]
        found == IF hits = {} THEN None
                 ELSE IF variables[def.name].some THEN variables[def.name]
                 ELSE DefaultValue(def)
    IN  IF found.some THEN Ok(found.v)
        ELSE ServerErrorAt(<<"Variable ", name, " is not defined.">>, pos)

\* Value::into_const_with on a value without lists or objects: a variable is
\* replaced by what the function gives for its name, anything else is kept.
IntoConstWith(node, pos) ==
    IF node.kind = "Variable" THEN VarValue(node.name, pos) ELSE Ok(node)

\* ContextBase::resolve_input_value
ResolveInputValue(value) == IntoConstWith(value.node, value.pos)

\* <bool as InputType>::parse(Some(value))
ParseBool(value) ==
    IF value.kind = "Boolean" THEN Ok(value.b)
    ELSE [kind |-> "Err", message |-> <<"Expected input type ", "Boolean", ", found ", value>>]

\* The error of a missing argument, naming the other directive.
MissingIfNamesOther(include, pos) ==
    ServerErrorAt(<<"Directive @", IF include THEN "skip" ELSE "include",
                    " requires argument ", "if", " of type ", "Boolean!",
                    " but it was not provided.">>, pos)

\* is_skip, context.rs:611: the error of a @skip / @include without if.
MissingIf(include, pos) ==
    ServerErrorAt(<<"Directive @", IF include THEN "include" ELSE "skip",
                    " requires argument ", "if", " of type ", "Boolean!",
                    " but it was not provided.">>, pos)

\* The test of context.rs:617 with the two directives swapped.
OmitsSwapped(include, condition) == include = condition

\* is_skip, context.rs:617-618: whether the directive asks for omission.
Omits(include, condition) == include # condition

\* The loop that notes the omission and goes on to the directives left.
OmitAfterLoop(omit, i, rest) ==
    IF omit
    THEN [ret |-> IF rest.ret.kind = "Err" THEN rest.ret ELSE Ok(TRUE),
          looked |-> rest.looked]
    ELSE rest

\* is_skip, context.rs:617-619: return Ok(true) at directive i when it asks
\* for omission, else go on with the directives left.
OmitOrGoOn(omit, i, rest) ==
    IF omit THEN [ret |-> Ok(TRUE), looked |-> i] ELSE rest

\* is_skip from directive i on; looked counts the directives it looked at.
RECURSIVE IsSkipFrom(_, _)
IsSkipFrom(dirs, i) ==
    IF i > Len(dirs) THEN [ret |-> Ok(FALSE), looked |-> Len(dirs)]
    ELSE IF dirs[i].name \notin {"skip", "include"} THEN IsSkipFrom(dirs, i + 1)
    ELSE LET include == dirs[i].name = "include"
             arg == GetArgument(dirs[i], "if")
         IN  IF ~arg.some THEN [ret |-> MissingIf(include, dirs[i].pos), looked |-> i]
             ELSE LET resolved == ResolveInputValue(arg.v)
                  IN  IF resolved.kind = "Err" THEN [ret |-> resolved, looked |-> i]
                      ELSE LET parsed == ParseBool(resolved.v)
                           IN  IF parsed.kind = "Err"
                               THEN [ret |-> ServerErrorAt(parsed.message, arg.v.pos),
                                     looked |-> i]
                               ELSE OmitOrGoOn(Omits(include, parsed.v), i,
                                               IsSkipFrom(dirs, i + 1))

\* ContextBase::is_skip
IsSkip(dirs) == IsSkipFrom(dirs, 1)

SkipNotCalled == [ret |-> [kind |-> "NotCalled"], looked |-> 0]

SkipInit ==
    /\ directives \in DirectiveLists
    /\ variable_definitions \in VariableDefinitionLists
    /\ variables \in [VariableNames -> SuppliedValues]
    /\ skip_res = SkipNotCalled

SkipIdle ==
    /\ directives = <<>>
    /\ variable_definitions = <<>>
    /\ variables = [n \in VariableNames |-> None]
    /\ skip_res = SkipNotCalled

\* A field or fragment of the query is reached: is_skip(directives).
CallIsSkip ==
    /\ skip_res = SkipNotCalled
    /\ skip_res' = IsSkip(directives)
    /\ UNCHANGED <<directives, variable_definitions, variables>>
    /\ UNCHANGED notSkip

SkipNext == CallIsSkip

(***************************************************************************)
(* Argument resolution (context.rs:585-590, 648-664).  param_value runs on *)
(* the field a field context stands at; the variables and their            *)
(* definitions are those of the query (variable_definitions, variables).   *)
(* The result records the calls param_value made, in order.                *)
(***************************************************************************)
ParamNames == {"flag"}

\* The types a resolver asks param_value for.
ParamTypes == {"Boolean", "Option<Boolean>"}

\* The argument lists the field may carry.
ParamArgumentLists ==
    {<<>>,
     <<[name |-> "flag", node |-> Boolean(TRUE)]>>,
     <<[name |-> "flag", node |-> Variable("x")]>>,
     <<[name |-> "flag", node |-> Number(1)]>>,
     <<[name |-> "flag", node |-> Null]>>,
     <<[name |-> "other", node |-> Boolean(TRUE)]>>,
     <<[name |-> "other", node |-> Variable("x")], [name |-> "flag", node |-> Boolean(FALSE)]>>}

\* The field the parser yields: at line 2, column 5, its k-th argument
\* value at column 10 + k.
FieldAt(args) ==
    [name |-> "f",
     pos |-> Pos(2, 5),
     arguments |-> [k \in 1..Len(args) |->
                       [name |-> args[k].name,
                        value |-> Positioned(Pos(2, 10 + k), args[k].node)]]]

\* Field::get_argument: the value of the first argument of that name.
FieldGetArgument(field, name) == GetArgument(field, name)

\* Pos::default()
PosDefault == Pos(0, 0)

\* What a default function of the type returns.
DefaultsOf(T) ==
    IF T = "Boolean" THEN {TRUE, FALSE} ELSE {None, Some(TRUE)}

\* <i32 as InputType>::parse
ParseI32(value) ==
    IF value.kind = "Number" THEN Ok(value.n)
    ELSE [kind |-> "Err", message |-> <<"Expected input type ", "Int", ", found ", value>>]

\* <T as InputType>::parse(value): an absent value is parsed as null; a
\* null is none of a Boolean and the None of an Option.
InputTypeParse(T, value) ==
    LET v == IF value.some THEN value.v ELSE Null
    IN  IF T = "Boolean" THEN ParseBool(v)
        ELSE IF T = "i32" THEN ParseI32(v)
        ELSE IF v.kind = "Null" THEN Ok(None)
        ELSE LET inner == ParseBool(v)
             IN  IF inner.kind = "Err" THEN inner ELSE Ok(Some(inner.v))

\* param_value that falls back on the default whenever no value is parsed.
ParamValueDefaultOnFailure(field, name, default, T) ==
    LET value == FieldGetArgument(field, name)
        resolved == ResolveInputValue(value.v)
        parsed == InputTypeParse(T, IF value.some /\ resolved.kind = "Ok"
                                    THEN Some(resolved.v) ELSE None)
    IN  IF default.some /\ (~value.some \/ resolved.kind = "Err" \/ parsed.kind = "Err")
        THEN [ret |-> Ok(default.v),
              calls |-> <<"get_argument", "resolve_input_value", "parse", "default">>]
        ELSE [ret |-> IF value.some /\ resolved.kind = "Err" THEN resolved
                      ELSE IF parsed.kind = "Err"
                      THEN ServerErrorAt(parsed.message,
                                         IF value.some THEN value.v.pos ELSE PosDefault)
                      ELSE parsed,
              calls |-> <<"get_argument", "resolve_input_value", "parse">>]

\* ContextBase::param_value: default is None or Some(what the default
\* function returns).
ParamValue(field, name, default, T) ==
    LET value == FieldGetArgument(field, name)
    IN  IF ~value.some /\ default.some
        THEN [ret |-> Ok(default.v), calls |-> <<"get_argument", "default">>]
        ELSE IF value.some
        THEN LET pos == value.v.pos
                 resolved == ResolveInputValue(value.v)
             IN  IF resolved.kind = "Err"
                 THEN [ret |-> resolved,
                       calls |-> <<"get_argument", "resolve_input_value">>]
                 ELSE LET parsed == InputTypeParse(T, Some(resolved.v))
                      IN  [ret |-> IF parsed.kind = "Err"
                                   THEN ServerErrorAt(parsed.message, pos)
                                   ELSE parsed,
                           calls |-> <<"get_argument", "resolve_input_value", "parse">>]
        ELSE LET parsed == InputTypeParse(T, None)
             IN  [ret |-> IF parsed.kind = "Err"
                          THEN ServerErrorAt(parsed.message, PosDefault)
                          ELSE parsed,
                  calls |-> <<"get_argument", "parse">>]

ParamNotCalled == [ret |-> [kind |-> "NotCalled"], calls |-> <<>>]

\* The field of a query that carries no argument.
ParamIdle ==
    /\ param_field = FieldAt(<<>>)
    /\ param_res = ParamNotCalled

\* A field of the query, no param_value call made yet.
ParamFieldInit ==
    /\ param_field \in {FieldAt(args) : args \in ParamArgumentLists}
    /\ param_res = ParamNotCalled

\* The query: a field with its arguments, the variable definitions of the
\* operation and the variables of the request.
ParamInit ==
    /\ ParamFieldInit
    /\ variable_definitions \in VariableDefinitionLists
    /\ variables \in [VariableNames -> SuppliedValues]

\* A resolver asks for its argument: ctx.param_value::<T>(name, default).
CallParamValue(name, default, T) ==
    /\ param_res = ParamNotCalled
    /\ param_res' = [name |-> name, default |-> default, type |-> T] @@
                     ParamValue(param_field, name, default, T)
    /\ UNCHANGED param_field
    /\ UNCHANGED notParam

ParamNext ==
    \E name \in ParamNames, T \in ParamTypes :
        \E default \in {None} \cup {Some(d) : d \in DefaultsOf(T)} :
            CallParamValue(name, default, T)

(***************************************************************************)
(* The value model and its JSON conversion (parser types/mod.rs:118-210,   *)
(* 287-378, 572-689).  A string is the sequence of its characters; a JSON  *)
(* value is a serde_json::Value; the derived Serialize / Deserialize of    *)
(* the two untagged enums are written out.                                 *)
(***************************************************************************)
MaxItems == 2

Digits == <<"0", "1", "2", "3", "4", "5", "6", "7", "8", "9">>

UpperCase ==
    <<"A", "B", "C", "D", "E", "F", "G", "H", "I", "J", "K", "L", "M",
      "N", "O", "P", "Q", "R", "S", "T", "U", "V", "W", "X", "Y", "Z">>

LowerCase ==
    <<"a", "b", "c", "d", "e", "f", "g", "h", "i", "j", "k", "l", "m",
      "n", "o", "p", "q", "r", "s", "t", "u", "v", "w", "x", "y", "z">>

Range(seq) == {seq[k] : k \in DOMAIN seq}

\* u8::is_ascii_alphabetic
IsAsciiAlphabetic(c) == c \in Range(UpperCase) \cup Range(LowerCase)

\* u8::is_ascii_alphanumeric
IsAsciiAlphanumeric(c) == IsAsciiAlphabetic(c) \/ c \in Range(Digits)

\* A check that lets any first character pass.
IsValidFirstUnchecked(name) ==
    /\ Len(name) > 0
    /\ \A k \in 2..Len(name) : IsAsciiAlphanumeric(name[k]) \/ name[k] = "_"

\* Name::is_valid
IsValid(name) ==
    /\ Len(name) > 0
    /\ IsAsciiAlphabetic(name[1]) \/ name[1] = "_"
    /\ \A k \in 2..Len(name) : IsAsciiAlphanumeric(name[k]) \/ name[k] = "_"

\* Name::new_unchecked in a release build: the string is wrapped as it is.
NameNewUnchecked(name) == Ok(name)

\* Name::new
NameNew(name) == IF IsValid(name) THEN Ok(name) ELSE [kind |-> "Err", v |-> name]

String(s) == [kind |-> "String", s |-> s]

Enum(name) == [kind |-> "Enum", name |-> name]

List(items) == [kind |-> "List", items |-> items]

Object(map) == [kind |-> "Object", map |-> map]

\* serde_json::Value
JsonNull == [json |-> "null"]

JsonBool(b) == [json |-> "bool", b |-> b]

JsonNumber(n) == [json |-> "number", n |-> n]

JsonString(s) == [json |-> "string", s |-> s]

JsonArray(items) == [json |-> "array", items |-> items]

JsonObject(map) == [json |-> "object", map |-> map]

\* serde_json::Error, and any other error that is a message only.
Error(message) == [kind |-> "Err", message |-> message]

\* The variable that is written as the string of its name.
SerializeVariableAsStr(name) == Ok(JsonString(name))

\* fail_serialize_variable
FailSerializeVariable(name) == Error(<<"cannot serialize variable">>)

\* Whether one of the results is an error, and such a result.
AnyFailed(results) == \E k \in DOMAIN results : results[k].kind = "Err"

FailedOf(results) == results[CHOOSE k \in DOMAIN results : results[k].kind = "Err"]

\* serde_json::to_value of a Value or ConstValue: the derived Serialize of
\* the untagged enum, a Name as its string, a map key as a JSON string.
RECURSIVE ToJson(_)
ToJson(v) ==
    CASE v.kind = "Variable" -> FailSerializeVariable(v.name)
      [] v.kind = "Null" -> Ok(JsonNull)
      [] v.kind = "Number" -> Ok(JsonNumber(v.n))
      [] v.kind = "String" -> Ok(JsonString(v.s))
      [] v.kind = "Boolean" -> Ok(JsonBool(v.b))
      [] v.kind = "Enum" -> Ok(JsonString(v.name))
      [] v.kind = "List" ->
            LET rs == [k \in DOMAIN v.items |-> ToJson(v.items[k])]
            IN  IF \E k \in DOMAIN rs : rs[k].kind = "Err"
                THEN rs[CHOOSE k \in DOMAIN rs : rs[k].kind = "Err" /\
                            \A j \in 1..(k - 1) : rs[j].kind = "Ok"]
                ELSE Ok(JsonArray([k \in DOMAIN rs |-> rs[k].v]))
      [] v.kind = "Object" ->
            LET rs == [key \in DOMAIN v.map |-> ToJson(v.map[key])]
            IN  IF AnyFailed(rs) THEN FailedOf(rs)
                ELSE Ok(JsonObject([key \in DOMAIN rs |-> rs[key].v]))

\* The variants with skip_deserializing on String in place of Enum.
VariantsSkipString(ty) == <<"Null", "Number", "Boolean", "Enum", "List", "Object">>

\* The variants the derived Deserialize tries, in the order of the enum:
\* those without skip_deserializing.
DeserializedVariants(ty) == <<"Null", "Number", "String", "Boolean", "List", "Object">>

\* <Name as Deserialize>::deserialize from a JSON value.
DeserializeName(j) ==
    IF j.json # "string" THEN Error(<<"invalid type">>)
    ELSE IF NameNew(j.s).kind = "Ok" THEN Ok(j.s)
    ELSE Error(<<"invalid value: string ", j.s, ", expected ", "a GraphQL name">>)

RECURSIVE FromJson(_, _)
RECURSIVE TryVariant(_, _, _)
RECURSIVE FirstVariant(_, _, _)

\* One variant of the untagged enum ty tried on the buffered content j.
TryVariant(ty, variant, j) ==
    CASE variant = "Null" ->
            IF j.json = "null" THEN Ok(Null) ELSE Error(<<"invalid type">>)
      [] variant = "Number" ->
            IF j.json = "number" THEN Ok(Number(j.n)) ELSE Error(<<"invalid type">>)
      [] variant = "String" ->
            IF j.json = "string" THEN Ok(String(j.s)) ELSE Error(<<"invalid type">>)
      [] variant = "Boolean" ->
            IF j.json = "bool" THEN Ok(Boolean(j.b)) ELSE Error(<<"invalid type">>)
      [] variant = "Enum" ->
            LET name == DeserializeName(j)
            IN  IF name.kind = "Ok" THEN Ok(Enum(name.v)) ELSE name
      [] variant = "Variable" ->
            LET name == DeserializeName(j)
            IN  IF name.kind = "Ok" THEN Ok(Variable(name.v)) ELSE name
      [] variant = "List" ->
            IF j.json # "array" THEN Error(<<"invalid type">>)
            ELSE LET rs == [k \in DOMAIN j.items |-> FromJson(ty, j.items[k])]
                 IN  IF AnyFailed(rs) THEN FailedOf(rs)
                     ELSE Ok(List([k \in DOMAIN rs |-> rs[k].v]))
      [] variant = "Object" ->
            IF j.json # "object" THEN Error(<<"invalid type">>)
            ELSE LET names == [key \in DOMAIN j.map |-> DeserializeName(JsonString(key))]
                     rs == [key \in DOMAIN j.map |-> FromJson(ty, j.map[key])]
                 IN  IF AnyFailed(names) THEN FailedOf(names)
                     ELSE IF AnyFailed(rs) THEN FailedOf(rs)
                     ELSE Ok(Object([key \in DOMAIN rs |-> rs[key].v]))

\* The first of the variants from place i on that takes the content.
FirstVariant(ty, j, i) ==
    IF i > Len(DeserializedVariants(ty))
    THEN Error(<<"data did not match any variant of untagged enum ", ty>>)
    ELSE LET r == TryVariant(ty, DeserializedVariants(ty)[i], j)
         IN  IF r.kind = "Ok" THEN r ELSE FirstVariant(ty, j, i + 1)

\* ConstValue::from_json, Value::from_json: the derived Deserialize.
FromJson(ty, j) == FirstVariant(ty, j, 1)

\* The code of an ASCII character (c as u32, the byte String's Ord
\* compares).
IndexOf(seq, c) == CHOOSE k \in DOMAIN seq : seq[k] = c

AsciiCode(c) ==
    IF c \in Range(Digits) THEN 47 + IndexOf(Digits, c)
    ELSE IF c \in Range(UpperCase) THEN 64 + IndexOf(UpperCase, c)
    ELSE IF c \in Range(LowerCase) THEN 96 + IndexOf(LowerCase, c)
    ELSE CASE c = "\t" -> 9 [] c = "\n" -> 10 [] c = "\f" -> 12 [] c = "\r" -> 13
           [] c = " " -> 32 [] c = "\"" -> 34 [] c = "$" -> 36
           [] c = "\\" -> 92 [] c = "_" -> 95

\* char::is_control
IsControl(c) == AsciiCode(c) < 32 \/ AsciiCode(c) = 127

\* <u32 as Display>::fmt: the decimal digits.
RECURSIVE DecimalChars(_)
DecimalChars(n) ==
    IF n < 10 THEN <<Digits[n + 1]>>
    ELSE DecimalChars(n \div 10) \o <<Digits[(n % 10) + 1]>>

\* The padding of {:04}: zeros in front up to the width.
RECURSIVE PadZero(_, _)
PadZero(chars, width) ==
    IF Len(chars) >= width THEN chars ELSE PadZero(<<"0">> \o chars, width)

\* write_quoted, what is written for one character.
WriteQuotedChar(c) ==
    CASE c = "\r" -> <<"\\", "r">>
      [] c = "\n" -> <<"\\", "n">>
      [] c = "\t" -> <<"\\", "t">>
      [] c = "\"" -> <<"\\", "\"">>
      [] c = "\\" -> <<"\\", "\\">>
      [] OTHER -> IF IsControl(c)
                  THEN <<"\\", "u">> \o PadZero(DecimalChars(AsciiCode(c)), 4)
                  ELSE <<c>>

\* The sequences of a sequence one after the other.
RECURSIVE Concat(_)
Concat(seqs) == IF Len(seqs) = 0 THEN <<>> ELSE seqs[1] \o Concat(Tail(seqs))

\* write_quoted
WriteQuoted(s) ==
    <<"\"">> \o Concat([k \in DOMAIN s |-> WriteQuotedChar(s[k])]) \o <<"\"">>

\* <Number as Display>::fmt of an integer.
NumberChars(n) == IF n < 0 THEN <<"-">> \o DecimalChars(0 - n) ELSE DecimalChars(n)

\* <String as Ord>::lt: byte by byte.
RECURSIVE StrLess(_, _)
StrLess(a, b) ==
    IF Len(a) = 0 THEN Len(b) > 0
    ELSE IF Len(b) = 0 THEN FALSE
    ELSE IF a[1] = b[1] THEN StrLess(Tail(a), Tail(b))
    ELSE AsciiCode(a[1]) < AsciiCode(b[1])

\* The keys of a BTreeMap in the order its iterator yields them.
SortedKeys(map) ==
    CHOOSE keys \in [1..Cardinality(DOMAIN map) -> DOMAIN map] :
        \A i, j \in DOMAIN keys : i < j => StrLess(keys[i], keys[j])

\* <Value as Display>::fmt and <ConstValue as Display>::fmt with write_list
\* and write_object: the characters written.
RECURSIVE ValueFmt(_)
ValueFmt(v) ==
    CASE v.kind = "Variable" -> <<"$">> \o v.name
      [] v.kind = "Number" -> NumberChars(v.n)
      [] v.kind = "String" -> WriteQuoted(v.s)
      [] v.kind = "Boolean" -> IF v.b THEN <<"t", "r", "u", "e">>
                               ELSE <<"f", "a", "l", "s", "e">>
      [] v.kind = "Null" -> <<"n", "u", "l", "l">>
      [] v.kind = "Enum" -> v.name
      [] v.kind = "List" ->
            <<"[">> \o Concat([k \in DOMAIN v.items |-> ValueFmt(v.items[k]) \o <<",">>])
                    \o <<"]">>
      [] v.kind = "Object" ->
            LET keys == SortedKeys(v.map)
            IN  <<"{">> \o Concat([k \in DOMAIN keys |->
                                      keys[k] \o <<":", " ">> \o ValueFmt(v.map[keys[k]])
                                              \o <<",">>])
                        \o <<"}">>

\* value.to_string(): no write fails, the result is what was written.
ValueDisplay(v) == Ok(ValueFmt(v))

\* The values and JSON values of the model: leaves, lists and objects of
\* up to MaxItems leaves, and a list or an object around one of those.
SeqsUpTo(S, n) == UNION {[1..k -> S] : k \in 0..n}

MapsUpTo(K, S, n) == UNION {[D -> S] : D \in {D \in SUBSET K : Cardinality(D) <= n}}

ObjectKeys == {<<"a">>, <<"_", "1">>}

ConstLeaves ==
    {Null, Number(5), Number(0 - 3), String(<<"a">>), String(<<"\f", "\\">>),
     String(<<"\r", "\n", "\t", "\"">>), Boolean(TRUE), Enum(<<"A">>)}

ValueLeaves == ConstLeaves \cup {Variable(<<"x">>)}

Nested(leaves) ==
    LET flat == {List(items) : items \in SeqsUpTo(leaves, MaxItems)} \cup
                {Object(map) : map \in MapsUpTo(ObjectKeys, leaves, MaxItems)}
    IN  leaves \cup flat \cup {List(<<v>>) : v \in flat} \cup
        {Object([key \in {<<"a">>} |-> v]) : v \in flat}

ConstValues == Nested(ConstLeaves)

Values == Nested(ValueLeaves)

JsonKeys == {<<"a">>, <<"1", "a">>, <<>>}

JsonLeaves == {JsonNull, JsonNumber(5), JsonString(<<"a">>), JsonBool(FALSE)}

JsonValues ==
    LET flat == {JsonArray(items) : items \in SeqsUpTo(JsonLeaves, MaxItems)} \cup
                {JsonObject(map) : map \in MapsUpTo(JsonKeys, JsonLeaves, MaxItems)}
    IN  JsonLeaves \cup flat \cup {JsonArray(<<j>>) : j \in flat} \cup
        {JsonObject([key \in {<<"a">>} |-> j]) : j \in flat}

ConvTypes == {"ConstValue", "Value"}

\* Nothing is converted.
ConvIdle ==
    /\ conv_type = "ConstValue"
    /\ conv_input = None
    /\ conv_json = NotCalled
    /\ conv_back = NotCalled
    /\ conv_text = NotCalled

\* A value of one of the two types is at hand, or a JSON value to convert
\* into one.
ConvInit ==
    /\ conv_type \in ConvTypes
    /\ \/ /\ conv_input \in {Some(v) : v \in IF conv_type = "Value" THEN Values
                                                                      ELSE ConstValues}
          /\ conv_json = NotCalled
       \/ /\ conv_input = None
          /\ conv_json \in {Ok(j) : j \in JsonValues}
    /\ conv_back = NotCalled
    /\ conv_text = NotCalled

\* value.into_json()
CallIntoJson ==
    /\ conv_input.some
    /\ conv_json = NotCalled
    /\ conv_json' = ToJson(conv_input.v)
    /\ UNCHANGED <<conv_type, conv_input, conv_back, conv_text>>
    /\ UNCHANGED notConv

\* ConstValue::from_json(json) or Value::from_json(json), on a JSON value
\* given or on the one into_json returned.
CallFromJson ==
    /\ conv_json.kind = "Ok"
    /\ conv_back = NotCalled
    /\ conv_back' = FromJson(conv_type, conv_json.v)
    /\ UNCHANGED <<conv_type, conv_input, conv_json, conv_text>>
    /\ UNCHANGED notConv

\* value.to_string()
CallDisplay ==
    /\ conv_input.some
    /\ conv_text = NotCalled
    /\ conv_text' = ValueDisplay(conv_input.v)
    /\ UNCHANGED <<conv_type, conv_input, conv_json, conv_back>>
    /\ UNCHANGED notConv

ConvNext == CallIntoJson \/ CallFromJson \/ CallDisplay

(***************************************************************************)
(* The substitution deserializer (parser types/mod.rs:212-238, 414-491).   *)
(* A target type is deserialized from a Value and a lookup function; the   *)
(* result records the names the lookup was called with, in order.          *)
(***************************************************************************)
\* The target types: i64, Option<T>, Vec<T>, BTreeMap<String, T>.
I64 == [t |-> "i64"]

Opt(T) == [t |-> "Option", of |-> T]

Vec(T) == [t |-> "Vec", of |-> T]

Map(T) == [t |-> "Map", of |-> T]

Targets == {I64, Opt(I64), Vec(I64), Vec(Opt(I64)), Map(I64), Opt(Vec(I64))}

\* The error of a visitor that does not take what the deserializer gives.
InvalidType(T, given) == Error(<<"invalid type: ", given, ", expected ", T.t>>)

\* What the visitor of T makes of a value that is no sequence and no map:
\* visit_unit, visit_i64 / visit_u64, visit_string, visit_bool, visit_enum.
VisitScalar(T, v) ==
    IF v.kind = "Number" /\ T.t = "i64" THEN Ok(v.n) ELSE InvalidType(T, v.kind)

\* <ConstValue as Deserializer>: T::deserialize on a ConstValue, through
\* deserialize_option for an Option and deserialize_any for the rest.
RECURSIVE DeserializeConst(_, _)
DeserializeConst(T, c) ==
    IF T.t = "Option"
    THEN IF c.kind = "Null" THEN Ok(None)
         ELSE LET r == DeserializeConst(T.of, c)
              IN  IF r.kind = "Err" THEN r ELSE Ok(Some(r.v))
    ELSE IF c.kind = "List" /\ T.t = "Vec"
    THEN LET rs == [k \in DOMAIN c.items |-> DeserializeConst(T.of, c.items[k])]
         IN  IF AnyFailed(rs)
             THEN rs[CHOOSE k \in DOMAIN rs : rs[k].kind = "Err" /\
                         \A j \in 1..(k - 1) : rs[j].kind = "Ok"]
             ELSE Ok([k \in DOMAIN rs |-> rs[k].v])
    ELSE IF c.kind = "Object" /\ T.t = "Map"
    THEN LET keys == SortedKeys(c.map)
             rs == [k \in DOMAIN keys |-> DeserializeConst(T.of, c.map[keys[k]])]
         IN  IF AnyFailed(rs)
             THEN rs[CHOOSE k \in DOMAIN rs : rs[k].kind = "Err" /\
                         \A j \in 1..(k - 1) : rs[j].kind = "Ok"]
             ELSE Ok([key \in DOMAIN c.map |-> DeserializeConst(T.of, c.map[key]).v])
    ELSE VisitScalar(T, c)

\* A lookup whose missing variable counts as null.
GetVariableOrNull(lookup, name) ==
    IF lookup[name].some THEN Ok(lookup[name].v) ELSE Ok(Null)

\* get_variable
GetVariable(lookup, name) ==
    IF lookup[name].some THEN Ok(lookup[name].v)
    ELSE Error(<<"variable ", name, " is not defined">>)

RECURSIVE Deserialize(_, _, _)
RECURSIVE DeserializeEach(_, _, _, _)

\* The elements of a SeqDeserializer or the values of a MapDeserializer,
\* one ValueDeserializer each, from place i on: the visitor stops at the
\* first that fails.
DeserializeEach(T, values, lookup, i) ==
    IF i > Len(values) THEN [ret |-> Ok(<<>>), looked |-> <<>>]
    ELSE LET first == Deserialize(T, values[i], lookup)
         IN  IF first.ret.kind = "Err" THEN first
             ELSE LET rest == DeserializeEach(T, values, lookup, i + 1)
                  IN  [ret |-> IF rest.ret.kind = "Err" THEN rest.ret
                               ELSE Ok(<<first.ret.v>> \o rest.ret.v),
                       looked |-> first.looked \o rest.looked]

\* <ValueDeserializer as Deserializer>: T::deserialize on a Value with the
\* lookup function, through deserialize_option for an Option and
\* deserialize_any for the rest.
Deserialize(T, v, lookup) ==
    IF v.kind = "Variable"
    THEN LET found == GetVariable(lookup, v.name)
         IN  [ret |-> IF found.kind = "Err" THEN found ELSE DeserializeConst(T, found.v),
              looked |-> <<v.name>>]
    ELSE IF T.t = "Option"
    THEN IF v.kind = "Null" THEN [ret |-> Ok(None), looked |-> <<>>]
         ELSE LET r == Deserialize(T.of, v, lookup)
              IN  [ret |-> IF r.ret.kind = "Err" THEN r.ret ELSE Ok(Some(r.ret.v)),
                   looked |-> r.looked]
    ELSE IF v.kind = "List" /\ T.t = "Vec"
    THEN DeserializeEach(T.of, v.items, lookup, 1)
    ELSE IF v.kind = "Object" /\ T.t = "Map"
    THEN LET keys == SortedKeys(v.map)
             r == DeserializeEach(T.of, [k \in DOMAIN keys |-> v.map[keys[k]]],
                                  lookup, 1)
         IN  [ret |-> IF r.ret.kind = "Err" THEN r.ret
                      ELSE Ok([key \in DOMAIN v.map |->
                                  r.ret.v[IndexOf(keys, key)]]),
              looked |-> r.looked]
    ELSE [ret |-> VisitScalar(T, v), looked |-> <<>>]

VariableKeys == {<<"x">>, <<"y">>}

\* The values deserialized, with variables at every depth.
DeLeaves == {Null, Number(5), Boolean(TRUE), Variable(<<"x">>), Variable(<<"y">>)}

DeValues == Nested(DeLeaves)

\* What the lookup function returns for a name.
Lookups ==
    {[name \in VariableKeys |-> IF name = <<"x">> THEN x ELSE y] :
        x \in {None, Some(Number(5)), Some(Null), Some(List(<<Number(5)>>))},
        y \in {None, Some(Number(7))}}

DeNotCalled == [ret |-> NotCalled, looked |-> <<>>]

DeIdle ==
    /\ de_target = I64
    /\ de_value = Null
    /\ de_variables = [name \in VariableKeys |-> None]
    /\ de_out = DeNotCalled

DeInit ==
    /\ de_target \in Targets
    /\ de_value \in DeValues
    /\ de_variables \in Lookups
    /\ de_out = DeNotCalled

\* T::deserialize(value.deserializer(&variables))
CallDeserialize ==
    /\ de_out = DeNotCalled
    /\ de_out' = Deserialize(de_target, de_value, de_variables)
    /\ UNCHANGED <<de_target, de_value, de_variables>>
    /\ UNCHANGED notDe

DeNext == CallDeserialize

(***************************************************************************)
(* Concurrent resolution (types/external/list.rs:29-37, 59-68).  The       *)
(* list-likes hand their elements to resolve_list; resolve_list and the    *)
(* resolution of a selection set are modelled from the specification: one  *)
(* future per element or field, created in input order, joined, completing *)
(* in any order, the outputs assembled by the place of the future.         *)
(***************************************************************************)
MaxSiblings == 3

ResponseKeys == {"a", "b", "c"}

ListElements == {1, 2}

\* The sequences without repetition over a set, up to a length.
SeqsNoRepeat(S, n) ==
    UNION {{q \in [1..k -> S] : \A i \in 1..k, j \in 1..k : q[i] = q[j] => i = j} :
               k \in 0..n}

\* The elements handed to resolve_list, taken from the back.
ListItemsReversed(list) == [i \in 1..Len(list) |-> list[Len(list) + 1 - i]]

\* list.rs:35 and list.rs:66: the elements handed to resolve_list are those
\* of the value, as its iterator yields them.
ListItems(list) == list

\* What resolving a field or an element yields.
ResolveOutput(x) == <<"resolved", x>>

\* resolve_list: one future per element, in the order of the iterator.
ListFutures(items) == [i \in 1..Len(items) |-> [idx |-> i - 1, item |-> items[i]]]

\* The resolution of a selection set: one future per field, in the order of
\* the fields.
FieldFutures(keys) == [i \in 1..Len(keys) |-> [key |-> keys[i]]]

\* The joined outputs of a list: a JSON array in the order of the futures.
AssembleList(slots) == [i \in DOMAIN slots |-> slots[i].v]

\* The joined outputs of a selection set: a JSON object whose keys are in the
\* order of the futures.
AssembleObject(futures, slots) == [i \in DOMAIN slots |-> <<futures[i].key, slots[i].v>>]

NotAssembled == [kind |-> "NotAssembled"]

ResInit ==
    /\ res_kind \in {"object", "list"}
    /\ res_input \in IF res_kind = "object"
                     THEN SeqsNoRepeat(ResponseKeys, MaxSiblings)
                     ELSE UNION {[1..k -> ListElements] : k \in 0..MaxSiblings}
    /\ res_futures = IF res_kind = "object"
                     THEN FieldFutures(res_input)
                     ELSE ListFutures(ListItems(res_input))
    /\ res_slots = [i \in 1..Len(res_input) |-> None]
    /\ res_completed = <<>>
    /\ res_out = NotAssembled

ResIdle ==
    /\ res_kind = "list"
    /\ res_input = <<>>
    /\ res_futures = <<>>
    /\ res_slots = <<>>
    /\ res_completed = <<>>
    /\ res_out = [kind |-> "Idle"]

\* The resolver of a sibling field completes, whenever it does.
CompleteField(i) ==
    /\ res_kind = "object"
    /\ res_out = NotAssembled
    /\ ~res_slots[i].some
    /\ res_slots' = [res_slots EXCEPT ![i] = Some(ResolveOutput(res_futures[i].key))]
    /\ res_completed' = Append(res_completed, i)
    /\ UNCHANGED <<res_kind, res_input, res_futures, res_out>>
    /\ UNCHANGED notRes

\* The resolution of a list element completes, whenever it does.
CompleteElement(i) ==
    /\ res_kind = "list"
    /\ res_out = NotAssembled
    /\ ~res_slots[i].some
    /\ res_slots' = [res_slots EXCEPT ![i] = Some(ResolveOutput(res_futures[i].item))]
    /\ res_completed' = Append(res_completed, i)
    /\ UNCHANGED <<res_kind, res_input, res_futures, res_out>>
    /\ UNCHANGED notRes

\* Every future has completed: the join returns and the value is assembled.
Assemble ==
    /\ res_out = NotAssembled
    /\ \A i \in DOMAIN res_slots : res_slots[i].some
    /\ res_out' = IF res_kind = "object"
                  THEN [kind |-> "Object", entries |-> AssembleObject(res_futures, res_slots)]
                  ELSE [kind |-> "Array", elements |-> AssembleList(res_slots)]
    /\ UNCHANGED <<res_kind, res_input, res_futures, res_slots, res_completed>>
    /\ UNCHANGED notRes

ResNext ==
    \/ \E i \in DOMAIN res_slots : CompleteField(i)
    \/ \E i \in DOMAIN res_slots : CompleteElement(i)
    \/ Assemble

(***************************************************************************)
(* The cache-control visitor (validation/visitors/cache_control.rs) over   *)
(* the annotations the derive attributes give (derive args.rs:7-29).  The  *)
(* type stack of the visitor context belongs to the validation framework:  *)
(* the current and the parent type are inputs of the two hooks.            *)
(***************************************************************************)
MaxEnters == 3

\* derive CacheControl: the arguments of a cache_control(...) attribute.
CacheControlArgs(public, private, max_age) ==
    [public |-> public, private |-> private, max_age |-> max_age]

\* <derive CacheControl as Default>::default
CacheControlArgsDefault == CacheControlArgs(TRUE, FALSE, 0)

\* derive CacheControl::is_public
IsPublic(args) == ~args.private /\ args.public

\* The CacheControl value the generated code registers for an attribute.
CacheControlOf(args) == [public |-> IsPublic(args), max_age |-> args.max_age]

\* CacheControl::merge
Merge(self, other) ==
    [public |-> self.public /\ other.public,
     max_age |-> IF self.max_age = 0 THEN other.max_age
                 ELSE IF other.max_age = 0 THEN self.max_age
                 ELSE IF self.max_age < other.max_age THEN self.max_age
                 ELSE other.max_age]

\* MetaType::Object, MetaType::Interface and MetaType::Scalar, with the
\* cache control of each field in place of the whole MetaField.
MetaObject(object_cache_control, fields) ==
    [kind |-> "Object", cache_control |-> object_cache_control, fields |-> fields]

MetaInterface(fields) == [kind |-> "Interface", fields |-> fields]

MetaScalar == [kind |-> "Scalar"]

\* MetaType::field_by_name
FieldByName(type, name) ==
    IF type.kind \in {"Object", "Interface"} /\ name \in DOMAIN type.fields
    THEN Some(type.fields[name])
    ELSE None

\* The types of the schema the visitor runs against.
RegistryTypes ==
    [Query |-> MetaObject(CacheControlOf(CacheControlArgsDefault),
                  [a |-> CacheControlOf(CacheControlArgs(TRUE, FALSE, 60)),
                   b |-> CacheControlOf(CacheControlArgs(TRUE, TRUE, 0)),
                   c |-> CacheControlOf(CacheControlArgs(TRUE, FALSE, 30))]),
     Secret |-> MetaObject(CacheControlOf(CacheControlArgs(FALSE, TRUE, 30)),
                  [a |-> CacheControlOf(CacheControlArgsDefault)]),
     Timed |-> MetaObject(CacheControlOf(CacheControlArgs(TRUE, FALSE, 60)),
                  [a |-> CacheControlOf(CacheControlArgs(FALSE, FALSE, 0))]),
     Node |-> MetaInterface([a |-> CacheControlOf(CacheControlArgs(TRUE, FALSE, 30))]),
     Int |-> MetaScalar]

\* What current_type() and parent_type() can return.
StackTypes == {None} \cup {Some(name) : name \in DOMAIN RegistryTypes}

ParentTypes == {None} \cup {Some(name) : name \in {"Query", "Secret", "Node", "Int"}}

VisitedFieldNames == {"a", "b", "c", "zz"}

\* enter_field that merges nothing.
EnterFieldNoMerge(aggregate, parent_type, name) == aggregate

\* CacheControlCalculate::enter_selection_set, the aggregate it leaves.
EnterSelectionSetAggregate(aggregate, current_type) ==
    IF current_type.some /\ RegistryTypes[current_type.v].kind = "Object"
    THEN Merge(aggregate, RegistryTypes[current_type.v].cache_control)
    ELSE aggregate

\* CacheControlCalculate::enter_field, the aggregate it leaves.
EnterFieldAggregate(aggregate, parent_type, name) ==
    LET registry_field ==
            IF parent_type.some THEN FieldByName(RegistryTypes[parent_type.v], name)
            ELSE None
    IN  IF registry_field.some THEN Merge(aggregate, registry_field.v) ELSE aggregate

\* The aggregate the visitor is created on: CacheControl::default().
CacheInit ==
    /\ cache_control = CacheControlOf(CacheControlArgsDefault)
    /\ cc_entered = <<>>

CacheIdle == CacheInit

EnterSelectionSet(current_type) ==
    /\ Len(cc_entered) < MaxEnters
    /\ cache_control' = EnterSelectionSetAggregate(cache_control, current_type)
    /\ cc_entered' = Append(cc_entered, [fn |-> "enter_selection_set",
                                         type |-> current_type])
    /\ UNCHANGED notCache

EnterField(parent_type, name) ==
    /\ Len(cc_entered) < MaxEnters
    /\ cache_control' = EnterFieldAggregate(cache_control, parent_type, name)
    /\ cc_entered' = Append(cc_entered, [fn |-> "enter_field", type |-> parent_type,
                                         name |-> name])
    /\ UNCHANGED notCache

CacheNext ==
    \/ \E current_type \in StackTypes : EnterSelectionSet(current_type)
    \/ \E parent_type \in ParentTypes, name \in VisitedFieldNames :
            EnterField(parent_type, name)

(***************************************************************************)
(* Name::is_valid and Name::new on the strings over a small alphabet       *)
(* (parser types/mod.rs:572-606).                                          *)
(***************************************************************************)
MaxNameLen == 3

NameChars == {"a", "Z", "_", "1", " "}

NameInputs == SeqsUpTo(NameChars, MaxNameLen)

NameInit ==
    /\ name_input \in NameInputs
    /\ name_valid = None
    /\ name_new = NotCalled

NameIdle ==
    /\ name_input = <<>>
    /\ name_valid = None
    /\ name_new = NotCalled

\* Name::is_valid(name)
CallIsValid ==
    /\ name_valid = None
    /\ name_valid' = Some(IsValid(name_input))
    /\ UNCHANGED <<name_input, name_new>>
    /\ UNCHANGED notName

\* Name::new(name)
CallNameNew ==
    /\ name_new = NotCalled
    /\ name_new' = NameNew(name_input)
    /\ UNCHANGED <<name_input, name_valid>>
    /\ UNCHANGED notName

NameNext == CallIsValid \/ CallNameNew

(***************************************************************************)
(* ctx.field().selection_set() and the iterator behind it                  *)
(* (context.rs:740-767, 784-827).  A slice iterator is the sequence of the *)
(* items it has not yielded yet.                                           *)
(***************************************************************************)
MaxSelections == 3

MaxCallsAfterEnd == 2

\* Selection::Field, Selection::FragmentSpread, Selection::InlineFragment
SelectedField(name, items) == [kind |-> "Field", name |-> name, items |-> items]

FragmentSpread(fragment_name) == [kind |-> "FragmentSpread", fragment_name |-> fragment_name]

InlineFragment(items) == [kind |-> "InlineFragment", items |-> items]

\* The selections a selection set of the model is made of: a field with
\* subfields of its own, two plain fields, a spread of BC, a spread of a
\* fragment no table has, an inline fragment around two fields.
Selections ==
    {SelectedField("a", <<SelectedField("d", <<>>)>>),
     SelectedField("b", <<>>),
     SelectedField("c", <<>>),
     FragmentSpread("BC"),
     FragmentSpread("Missing"),
     InlineFragment(<<SelectedField("b", <<>>), SelectedField("c", <<>>)>>)}

\* The fragment tables of the model; validation admits no table in which
\* a fragment spreads itself, directly or through others.
FragmentTables ==
    {[name \in {"BC"} |-> <<SelectedField("b", <<>>), SelectedField("c", <<>>)>>],
     [name \in {"BC", "D"} |->
         IF name = "BC" THEN <<SelectedField("b", <<>>), FragmentSpread("D")>>
         ELSE <<SelectedField("c", <<>>)>>],
     [name \in {"BC"} |->
         <<InlineFragment(<<SelectedField("b", <<>>)>>), FragmentSpread("D"),
           SelectedField("c", <<>>)>>]}

\* Vec::pop
Pop(stack) == SubSeq(stack, 1, Len(stack) - 1)

\* A spread that pushes nothing, whatever the table holds.
FragmentSpreadIgnored(fragments, fragment_name, stack) == stack

\* SelectionFieldsIter::next, the FragmentSpread arm: the items of the
\* fragment are pushed if the table has it.
OnFragmentSpread(fragments, fragment_name, stack) ==
    IF fragment_name \in DOMAIN fragments
    THEN Append(stack, fragments[fragment_name])
    ELSE stack

RECURSIVE IterNext(_, _)

\* An exhausted inner iterator that ends the call.
EndOnExhausted(fragments, stack) == [ret |-> None, iter |-> Pop(stack)]

\* SelectionFieldsIter::next, the None arm: pop and go round the loop.
OnExhausted(fragments, stack) == IterNext(fragments, Pop(stack))

\* SelectionFieldsIter::next on the stack of iterators: what it returns
\* and the stack it leaves.
IterNext(fragments, stack) ==
    IF stack = <<>> THEN [ret |-> None, iter |-> stack]
    ELSE LET it == stack[Len(stack)]
         IN  IF it = <<>> THEN OnExhausted(fragments, stack)
             ELSE LET selection == Head(it)
                      advanced == [stack EXCEPT ![Len(stack)] = Tail(it)]
                  IN  CASE selection.kind = "Field" ->
                              [ret |-> Some(selection), iter |-> advanced]
                        [] selection.kind = "FragmentSpread" ->
                              IterNext(fragments,
                                       OnFragmentSpread(fragments,
                                                        selection.fragment_name, advanced))
                        [] selection.kind = "InlineFragment" ->
                              IterNext(fragments, Append(advanced, selection.items))

\* A field context stands at a field of a query and no iterator is made.
SelInit ==
    /\ sel_fragments \in FragmentTables
    /\ sel_items \in SeqsUpTo(Selections, MaxSelections)
    /\ sel_iter = None
    /\ sel_yielded = <<>>

SelIdle ==
    /\ sel_fragments = <<>>
    /\ sel_items = <<>>
    /\ sel_iter = None
    /\ sel_yielded = <<>>

\* ctx.field().selection_set()
CallSelectionSet ==
    /\ sel_iter = None
    /\ sel_iter' = Some(<<sel_items>>)
    /\ UNCHANGED <<sel_fragments, sel_items, sel_yielded>>
    /\ UNCHANGED notSel

\* The number of calls that returned None.
EndsSeen == Cardinality({k \in DOMAIN sel_yielded : ~sel_yielded[k].some})

\* iterator.next()
CallIterNext ==
    /\ sel_iter.some
    /\ EndsSeen < MaxCallsAfterEnd
    /\ LET r == IterNext(sel_fragments, sel_iter.v)
       IN  /\ sel_iter' = Some(r.iter)
           /\ sel_yielded' = Append(sel_yielded, r.ret)
    /\ UNCHANGED <<sel_fragments, sel_items>>
    /\ UNCHANGED notSel

SelNext == CallSelectionSet \/ CallIterNext

(***************************************************************************)
(* The validator attribute: SingleValidator::from_meta (derive             *)
(* args.rs:416-480) and the Single arm of generate_validator (derive       *)
(* utils.rs:69-112).  Literals are string literals; a generated            *)
(* expression is the record of its constructor and its method calls.       *)
(***************************************************************************)
MaxNested == 3

\* syn::Meta and syn::NestedMeta
MetaPath(path) == [meta |-> "Path", path |-> path]

MetaNameValue(path, lit) == [meta |-> "NameValue", path |-> path, lit |-> lit]

MetaList(path, nested) == [meta |-> "List", path |-> path, nested |-> nested]

NestedLit(lit) == [nested |-> "Lit", lit |-> lit]

NestedMeta(meta) == [nested |-> "Meta", meta |-> meta]

\* LitStr::parse: the tokens the content of a string literal stands for.
Tokens(lit) == [tokens |-> lit]

\* The items inside a validator list: a literal, and a method in each of
\* its three forms.
NestedItems ==
    {NestedLit("6"),
     NestedMeta(MetaPath("strict")),
     NestedMeta(MetaNameValue("colon", "true")),
     NestedMeta(MetaList("len", <<NestedLit("1"), NestedLit("2")>>))}

ValidatorMetas ==
    {MetaPath("Email"), MetaNameValue("InRange", "100..=200_i32")} \cup
    {MetaList("MAC", nested) : nested \in SeqsUpTo(NestedItems, MaxNested)}

\* ValidatorMethod::from_meta
ValidatorMethodFromMeta(meta) ==
    CASE meta.meta = "Path" -> Ok([name |-> meta.path, args |-> <<>>])
      [] meta.meta = "NameValue" -> Ok([name |-> meta.path, args |-> <<meta.lit>>])
      [] meta.meta = "List" ->
            IF \E k \in DOMAIN meta.nested : meta.nested[k].nested # "Lit"
            THEN Error(<<"Unexpected meta-item format">>)
            ELSE Ok([name |-> meta.path,
                     args |-> [k \in DOMAIN meta.nested |-> meta.nested[k].lit]])

\* The number of literals the items begin with.
LeadingLits(nested) ==
    IF \A k \in DOMAIN nested : nested[k].nested = "Lit" THEN Len(nested)
    ELSE (CHOOSE k \in DOMAIN nested :
              nested[k].nested # "Lit" /\ \A j \in 1..(k - 1) : nested[j].nested = "Lit") - 1

\* nested.by_ref().take_while(..): the items it yields and the items it
\* leaves in nested.  The item that ends it was taken from nested to be
\* tested and is not put back.
TakeWhileLit(nested) ==
    LET k == LeadingLits(nested)
    IN  [taken |-> SubSeq(nested, 1, k), left |-> SubSeq(nested, k + 2, Len(nested))]

\* SingleValidator::from_meta
SingleValidatorFromMeta(meta) ==
    CASE meta.meta = "Path" ->
            Ok([path |-> meta.path, constructor_args |-> <<>>, methods |-> <<>>])
      [] meta.meta = "NameValue" ->
            Ok([path |-> meta.path, constructor_args |-> <<meta.lit>>, methods |-> <<>>])
      [] meta.meta = "List" ->
            LET split == TakeWhileLit(meta.nested)
                constructor_args == [k \in DOMAIN split.taken |-> split.taken[k].lit]
                methods ==
                    [k \in DOMAIN split.left |->
                        IF split.left[k].nested = "Meta"
                        THEN ValidatorMethodFromMeta(split.left[k].meta)
                        ELSE Error(<<"validator constructor arguments must be before ",
                                     "validator methods">>)]
            IN  IF AnyFailed(methods)
                THEN methods[CHOOSE k \in DOMAIN methods :
                                 methods[k].kind = "Err" /\
                                 \A j \in 1..(k - 1) : methods[j].kind = "Ok"]
                ELSE Ok([path |-> meta.path, constructor_args |-> constructor_args,
                         methods |-> [k \in DOMAIN methods |-> methods[k].v]])

\* <path as Default>::default()
DefaultCall(path) == [path |-> path, fn |-> "default", args |-> <<>>]

\* path::new(args,)
NewCall(path, args) == [path |-> path, fn |-> "new", args |-> args]

\* .name(args,)
MethodCall(name, args) == [name |-> name, args |-> args]

\* generate_validator on Validator::Single(single): the expression
\* #constructor #methods.
GenerateValidator(single) ==
    [constructor |->
        IF single.constructor_args = <<>> THEN DefaultCall(single.path)
        ELSE NewCall(single.path, [k \in DOMAIN single.constructor_args |->
                                      Tokens(single.constructor_args[k])]),
     methods |->
        [k \in DOMAIN single.methods |->
            MethodCall(single.methods[k].name,
                       [j \in DOMAIN single.methods[k].args |->
                           Tokens(single.methods[k].args[j])])]]

ValInit ==
    /\ val_meta \in ValidatorMetas
    /\ val_single = NotCalled
    /\ val_expr = NotCalled

ValIdle ==
    /\ val_meta = MetaPath("Email")
    /\ val_single = NotCalled
    /\ val_expr = NotCalled

\* darling reads the attribute: SingleValidator::from_meta(meta)
CallFromMeta ==
    /\ val_single = NotCalled
    /\ val_single' = SingleValidatorFromMeta(val_meta)
    /\ UNCHANGED <<val_meta, val_expr>>
    /\ UNCHANGED notVal

\* generate_validator(crate_name, &Validator::Single(single)); an error
\* of from_meta is the error of the derive.
CallGenerateValidator ==
    /\ val_single # NotCalled
    /\ val_expr = NotCalled
    /\ val_expr' = IF val_single.kind = "Ok" THEN Ok(GenerateValidator(val_single.v))
                   ELSE val_single
    /\ UNCHANGED <<val_meta, val_single>>
    /\ UNCHANGED notVal

ValNext == CallFromMeta \/ CallGenerateValidator

(***************************************************************************)
(* The resolve_field that InterfaceImpl generates (derive                  *)
(* interface_impl.rs:226-241, 265-276), for the impl of the test           *)
(* test_interface_impl (tests/interface.rs:505-520): async fn id(&self)    *)
(* and async fn add(&self, n: i32) on a Node that wraps an object.         *)
(***************************************************************************)
\* The methods of the impl in their order: the GraphQL field name, the
\* arguments with their default and type, the method.
ImplMethods ==
    <<[field_name |-> "id", params |-> <<>>, ident |-> "id"],
      [field_name |-> "add",
       params |-> <<[name |-> "n", default |-> None, type |-> "i32"]>>,
       ident |-> "add"]>>

\* self.#field_ident(ctx, #(#use_params),*).await on the Node of the test
CallMethod(self, ident, params) ==
    IF ident = "id" THEN Ok(self) ELSE Ok(self + params[1])

\* <i32 as OutputType>::resolve
ResolveI32(n) == Ok(Number(n))

\* The field as the parser yields it, at line 3, column 9.
ItemAt(name, alias, args) ==
    [alias |-> alias] @@ [FieldAt(args) EXCEPT !.name = name, !.pos = Pos(3, 9)]

\* The key the field has in the response: its alias if it has one.
ItemResponseKey(item) == IF item.alias.some THEN item.alias.v ELSE item.name

\* ctx.item.node.name.node
ItemName(item) == item.name

\* #(#get_params)*: the param_value calls in the order of the
\* parameters, up to the first that fails.
RECURSIVE GetParams(_, _, _)
GetParams(item, params, k) ==
    IF k > Len(params) THEN [ret |-> Ok(<<>>), steps |-> <<>>]
    ELSE LET got == ParamValue(item, params[k].name, params[k].default, params[k].type)
             step == <<<<"param_value", params[k].name>>>>
         IN  IF got.ret.kind = "Err" THEN [ret |-> got.ret, steps |-> step]
             ELSE LET more == GetParams(item, params, k + 1)
                  IN  [ret |-> IF more.ret.kind = "Err" THEN more.ret
                               ELSE Ok(<<got.ret.v>> \o more.ret.v),
                       steps |-> step \o more.steps]

\* One resolver of the generated resolve_field, taken when the name of
\* the field is its field name.
Resolver(self, item, method) ==
    LET got == GetParams(item, method.params, 1)
    IN  IF got.ret.kind = "Err" THEN got
        ELSE LET res == CallMethod(self, method.ident, got.ret.v)
                 pre == got.steps \o <<<<"with_selection_set">>, <<"call", method.ident>>>>
             IN  IF res.kind = "Err"
                 THEN [ret |-> ServerErrorAt(res.message, item.pos), steps |-> pre]
                 ELSE [ret |-> Ok(Some(ResolveI32(res.v).v)),
                       steps |-> pre \o <<<<"resolve", "ctx_obj">>>>]

\* ContainerType::resolve_field as generated: the resolvers in the order
\* of the methods, Ok(None) after them.
RECURSIVE ResolveFieldFrom(_, _, _)
ResolveFieldFrom(self, item, k) ==
    IF k > Len(ImplMethods) THEN [ret |-> Ok(None), steps |-> <<>>]
    ELSE IF ItemName(item) = ImplMethods[k].field_name
    THEN Resolver(self, item, ImplMethods[k])
    ELSE ResolveFieldFrom(self, item, k + 1)

IfaceNotCalled == [ret |-> NotCalled, steps |-> <<>>]

IfaceFieldNames == {"id", "add", "title", "__typename"}

IfaceAliases == {None, Some("id"), Some("add"), Some("id2")}

IfaceArgumentLists ==
    {<<>>,
     <<[name |-> "n", node |-> Number(5)]>>,
     <<[name |-> "n", node |-> Variable("x")]>>,
     <<[name |-> "n", node |-> Boolean(TRUE)]>>}

IfaceInit ==
    /\ iface_self \in {1, 2}
    /\ iface_item \in {ItemAt(name, alias, args) :
                           name \in IfaceFieldNames, alias \in IfaceAliases,
                           args \in IfaceArgumentLists}
    /\ iface_out = IfaceNotCalled

IfaceIdle ==
    /\ iface_self = 1
    /\ iface_item = ItemAt("id", None, <<>>)
    /\ iface_out = IfaceNotCalled

\* node.resolve_field(&ctx).await
CallResolveField ==
    /\ iface_out = IfaceNotCalled
    /\ iface_out' = ResolveFieldFrom(iface_self, iface_item, 1)
    /\ UNCHANGED <<iface_self, iface_item>>
    /\ UNCHANGED notIface

IfaceNext == CallResolveField

(***************************************************************************)
(* MaybeUndefined<T> and its Serialize / Deserialize                       *)
(* (types/maybe_undefined.rs:50-70, 127-140), alone and as the field a of  *)
(* the struct A of test_maybe_undefined_serde, which derives both.  A      *)
(* deserializer is a JSON value or the one serde hands over for a field    *)
(* the input lacks.                                                        *)
(***************************************************************************)
Undefined == [mu |-> "Undefined"]

MuNull == [mu |-> "Null"]

MuValue(value) == [mu |-> "Value", value |-> value]

MuTypes == {"i32", "Option<i32>"}

\* The values of T in the model.
ValuesOf(T) == IF T = "i32" THEN {100, 0, 0 - 1} ELSE {None, Some(100), Some(0)}

JsonDeserializer(j) == [de |-> "json", j |-> j]

\* serde's deserializer for a field that is missing from the input.
MissingFieldDeserializer(field) == [de |-> "missing", field |-> field]

\* <T as Serialize>::serialize into a serde_json::Value, for i32 and
\* Option<i32>.
SerializeT(T, value) ==
    IF T = "i32" THEN JsonNumber(value)
    ELSE IF value.some THEN JsonNumber(value.v) ELSE JsonNull

\* <i32 as Deserialize>::deserialize
DeserializeI32(de) ==
    IF de.de = "missing" THEN Error(<<"missing field ", de.field>>)
    ELSE IF de.j.json = "number" THEN Ok(de.j.n)
    ELSE Error(<<"invalid type">>)

\* <Option<U> as Deserialize>::deserialize, U being i32 or Option<i32>:
\* deserialize_option visits none on a null and on a missing field, some
\* with the same deserializer otherwise.
RECURSIVE DeserializeOption(_, _)
DeserializeOption(U, de) ==
    IF de.de = "missing" \/ de.j.json = "null" THEN Ok(None)
    ELSE LET inner == IF U = "i32" THEN DeserializeI32(de)
                      ELSE DeserializeOption("i32", de)
         IN  IF inner.kind = "Err" THEN inner ELSE Ok(Some(inner.v))

\* A conversion that takes an absent value for an undefined one.
FromDefinedOrUndefined(defined) ==
    IF defined.some THEN MuValue(defined.v) ELSE Undefined

\* MaybeUndefined::from_defined
FromDefined(defined) ==
    IF defined.some THEN MuValue(defined.v) ELSE MuNull

\* <MaybeUndefined<T> as Serialize>::serialize
MuSerialize(T, value) ==
    IF value.mu = "Value" THEN SerializeT(T, value.value) ELSE JsonNull

\* <MaybeUndefined<T> as Deserialize>::deserialize
MuDeserialize(T, de) ==
    LET defined == DeserializeOption(T, de)
    IN  IF defined.kind = "Err" THEN defined ELSE Ok(FromDefined(defined.v))

\* The derived Serialize of struct A { a: MaybeUndefined<T> }
SerializeA(T, value) == JsonObject([key \in {<<"a">>} |-> MuSerialize(T, value)])

\* The derived Deserialize of struct A: the field from its entry, or
\* from the deserializer of a missing field.
DeserializeA(T, j) ==
    IF j.json # "object" THEN Error(<<"invalid type">>)
    ELSE IF <<"a">> \in DOMAIN j.map
    THEN MuDeserialize(T, JsonDeserializer(j.map[<<"a">>]))
    ELSE MuDeserialize(T, MissingFieldDeserializer("a"))

MuValues(T) == {Undefined, MuNull} \cup {MuValue(value) : value \in ValuesOf(T)}

\* The JSON given for a MaybeUndefined<T> and for the struct A.
MuJsonInputs ==
    {JsonNull, JsonNumber(100), JsonNumber(0), JsonBool(TRUE), JsonString(<<"a">>)}

MuStructInputs ==
    {JsonObject([key \in {<<"a">>} |-> j]) : j \in MuJsonInputs} \cup
    {JsonObject(<<>>), JsonObject([key \in {<<"b">>} |-> JsonNumber(100)])}

MuInit ==
    /\ mu_type \in MuTypes
    /\ mu_in_struct \in BOOLEAN
    /\ \/ /\ mu_value \in {Some(value) : value \in MuValues(mu_type)}
          /\ mu_json = NotCalled
       \/ /\ mu_value = None
          /\ mu_json \in {Ok(j) : j \in IF mu_in_struct THEN MuStructInputs
                                                           ELSE MuJsonInputs}
    /\ mu_back = NotCalled

MuIdle ==
    /\ mu_type = "i32"
    /\ mu_in_struct = FALSE
    /\ mu_value = None
    /\ mu_json = NotCalled
    /\ mu_back = NotCalled

\* serde_json::to_value(&value)
CallMuSerialize ==
    /\ mu_value.some
    /\ mu_json = NotCalled
    /\ mu_json' = Ok(IF mu_in_struct THEN SerializeA(mu_type, mu_value.v)
                     ELSE MuSerialize(mu_type, mu_value.v))
    /\ UNCHANGED <<mu_type, mu_in_struct, mu_value, mu_back>>
    /\ UNCHANGED notMu

\* serde_json::from_value(json)
CallMuDeserialize ==
    /\ mu_json # NotCalled
    /\ mu_back = NotCalled
    /\ mu_back' = IF mu_in_struct THEN DeserializeA(mu_type, mu_json.v)
                   ELSE MuDeserialize(mu_type, JsonDeserializer(mu_json.v))
    /\ UNCHANGED <<mu_type, mu_in_struct, mu_value, mu_json>>
    /\ UNCHANGED notMu

MuNext == CallMuSerialize \/ CallMuDeserialize

(***************************************************************************)
(* The specifications: one part runs, the others stay idle.                *)
(***************************************************************************)
InitData ==
    DataInit /\ HdrIdle /\ CtxIdle /\ SkipIdle /\ ParamIdle /\ ResIdle /\ ConvIdle /\ DeIdle
    /\ CacheIdle
    /\ NameIdle
    /\ SelIdle
    /\ ValIdle
    /\ IfaceIdle
    /\ MuIdle

SpecData == InitData /\ [][DataNext]_vars

InitHeaders ==
    HdrInit /\ DataIdle /\ CtxIdle /\ SkipIdle /\ ParamIdle /\ ResIdle /\ ConvIdle /\ DeIdle
    /\ CacheIdle
    /\ NameIdle
    /\ SelIdle
    /\ ValIdle
    /\ IfaceIdle
    /\ MuIdle

SpecHeaders == InitHeaders /\ [][HdrNext]_vars

InitContext ==
    CtxInit /\ DataIdle /\ HdrIdle /\ SkipIdle /\ ParamIdle /\ ResIdle /\ ConvIdle /\ DeIdle
    /\ CacheIdle
    /\ NameIdle
    /\ SelIdle
    /\ ValIdle
    /\ IfaceIdle
    /\ MuIdle

SpecContext == InitContext /\ [][CtxNext]_vars

InitSkip ==
    SkipInit /\ DataIdle /\ HdrIdle /\ CtxIdle /\ ParamIdle /\ ResIdle /\ ConvIdle /\ DeIdle
    /\ CacheIdle
    /\ NameIdle
    /\ SelIdle
    /\ ValIdle
    /\ IfaceIdle
    /\ MuIdle

SpecSkip == InitSkip /\ [][SkipNext]_vars

InitResolve ==
    ResInit /\ DataIdle /\ HdrIdle /\ CtxIdle /\ SkipIdle /\ ParamIdle /\ ConvIdle /\ DeIdle
    /\ CacheIdle
    /\ NameIdle
    /\ SelIdle
    /\ ValIdle
    /\ IfaceIdle
    /\ MuIdle

SpecResolve == InitResolve /\ [][ResNext]_vars

\* param_value runs on a field of a query with its variables; no directive
\* is looked at.
InitParam ==
    /\ ParamInit
    /\ directives = <<>> /\ skip_res = SkipNotCalled
    /\ DataIdle /\ HdrIdle /\ CtxIdle /\ ConvIdle /\ DeIdle /\ ResIdle
    /\ CacheIdle
    /\ NameIdle
    /\ SelIdle
    /\ ValIdle
    /\ IfaceIdle
    /\ MuIdle

SpecParam == InitParam /\ [][ParamNext]_vars

InitConv ==
    /\ ConvInit
    /\ DataIdle /\ HdrIdle /\ CtxIdle /\ SkipIdle /\ ParamIdle /\ DeIdle /\ ResIdle
    /\ CacheIdle
    /\ NameIdle
    /\ SelIdle
    /\ ValIdle
    /\ IfaceIdle
    /\ MuIdle

SpecConv == InitConv /\ [][ConvNext]_vars

InitDeser ==
    /\ DeInit
    /\ DataIdle /\ HdrIdle /\ CtxIdle /\ SkipIdle /\ ParamIdle /\ ConvIdle /\ ResIdle
    /\ CacheIdle
    /\ NameIdle
    /\ SelIdle
    /\ ValIdle
    /\ IfaceIdle
    /\ MuIdle

SpecDeser == InitDeser /\ [][DeNext]_vars

InitCache ==
    /\ CacheInit
    /\ DataIdle /\ HdrIdle /\ CtxIdle /\ SkipIdle /\ ParamIdle /\ ConvIdle /\ DeIdle
    /\ ResIdle
    /\ NameIdle
    /\ SelIdle
    /\ ValIdle
    /\ IfaceIdle
    /\ MuIdle

SpecCache == InitCache /\ [][CacheNext]_vars

InitName ==
    /\ NameInit
    /\ DataIdle /\ HdrIdle /\ CtxIdle /\ SkipIdle /\ ParamIdle /\ ConvIdle /\ DeIdle
    /\ ResIdle /\ CacheIdle
    /\ SelIdle
    /\ ValIdle
    /\ IfaceIdle
    /\ MuIdle

SpecName == InitName /\ [][NameNext]_vars

InitSel ==
    /\ SelInit
    /\ DataIdle /\ HdrIdle /\ CtxIdle /\ SkipIdle /\ ParamIdle /\ ConvIdle /\ DeIdle
    /\ ResIdle /\ CacheIdle /\ NameIdle
    /\ ValIdle
    /\ IfaceIdle
    /\ MuIdle

SpecSel == InitSel /\ [][SelNext]_vars

\* Whoever iterates goes on calling next() until it has seen the end.
SpecSelFair == SpecSel /\ WF_vars(SelNext)

InitVal ==
    /\ ValInit
    /\ DataIdle /\ HdrIdle /\ CtxIdle /\ SkipIdle /\ ParamIdle /\ ConvIdle /\ DeIdle
    /\ ResIdle /\ CacheIdle /\ NameIdle /\ SelIdle
    /\ IfaceIdle
    /\ MuIdle

SpecVal == InitVal /\ [][ValNext]_vars

InitIface ==
    /\ IfaceInit
    /\ DataIdle /\ HdrIdle /\ CtxIdle /\ SkipIdle /\ ParamIdle /\ ConvIdle /\ DeIdle
    /\ ResIdle /\ CacheIdle /\ NameIdle /\ SelIdle /\ ValIdle
    /\ MuIdle

SpecIface == InitIface /\ [][IfaceNext]_vars

InitMu ==
    /\ MuInit
    /\ DataIdle /\ HdrIdle /\ CtxIdle /\ SkipIdle /\ ParamIdle /\ ConvIdle /\ DeIdle
    /\ ResIdle /\ CacheIdle /\ NameIdle /\ SelIdle /\ ValIdle /\ IfaceIdle

SpecMu == InitMu /\ [][MuNext]_vars

Init ==
    DataInit /\ HdrInit /\ CtxInit /\ SkipInit /\ ParamFieldInit /\ ConvInit
    /\ DeInit /\ ResInit
    /\ CacheInit
    /\ NameInit
    /\ SelInit
    /\ ValInit
    /\ IfaceInit
    /\ MuInit

Next ==
    DataNext \/ HdrNext \/ CtxNext \/ SkipNext \/ ParamNext \/ ConvNext
    \/ DeNext \/ ResNext
    \/ CacheNext
    \/ NameNext
    \/ SelNext
    \/ ValNext
    \/ IfaceNext
    \/ MuNext

\* The whole context: every part may take the next step.
Spec == Init /\ [][Next]_vars

(***************************************************************************)
(* Claims about the context tree, checked under SpecContext.               *)
(***************************************************************************)
\* The contexts made by with_field or with_index: those whose resolve id
\* get_child_resolve_id allocated.
Allocated == {i \in 1..Len(ctxs) : ctxs[i].via \in {"with_field", "with_index"}}

\* C1: whatever the interleaving of the with_field and with_index calls on
\* contexts sharing one counter, every id get_child_resolve_id returned
\* differs from every other one and from the root id 0.
C1_ResolveIdsUnique ==
    /\ \A i \in Allocated, j \in Allocated :
           i # j => ctxs[i].resolve_id.current # ctxs[j].resolve_id.current
    /\ \A i \in Allocated : ctxs[i].resolve_id.current # RootResolveId.current
    /\ \A t \in CtxTasks : ctx_pc[t] = "build" =>
           /\ ctx_call[t].fetched + 1 # RootResolveId.current
           /\ \A i \in Allocated : ctxs[i].resolve_id.current # ctx_call[t].fetched + 1
           /\ \A u \in CtxTasks \ {t} :
                  ctx_pc[u] = "build" => ctx_call[u].fetched # ctx_call[t].fetched

\* Two descents overlapped: both tasks had passed their fetch_add before
\* either child was built, and the children were built in the other order.
C1_Witness ==
    /\ Len(ctxs) = 3
    /\ ctxs[2].via = "with_field"
    /\ ctxs[3].via = "with_index"
    /\ ctxs[2].resolve_id.current = 2
    /\ ctxs[3].resolve_id.current = 1

RECURSIVE Sequential(_)
Sequential(hist) ==
    IF hist = <<>>
    THEN [map |-> [k \in HeaderKeys |-> <<>>], same |-> TRUE]
    ELSE LET before == Sequential(SubSeq(hist, 1, Len(hist) - 1))
             c == hist[Len(hist)]
             k == HeaderNameOf(c.name)
             r == HeaderOp(c.fn, before.map[k], c.value)
         IN  [map |-> [before.map EXCEPT ![k] = r.vals],
              same |-> before.same /\ r.ret = c.ret]

\* C3: every header call is one critical section: whatever the interleaving
\* of the tasks, the map and every return value are those of the calls made
\* one after the other in some order (the order in which they took effect),
\* at most one task is inside, and a task that is back in its resolver holds
\* no guard.
C3_HeaderCallsAtomic ==
    /\ Sequential(hdr_hist).same
    /\ Sequential(hdr_hist).map = http_headers
    /\ Cardinality(hdr_lock) <= 1
    /\ \A t \in HdrTasks : hdr_pc[t] \in {"resolving", "lock"} <=> t \notin hdr_lock

\* Two calls on one name were in flight together: one took effect while the
\* other waited for the lock, and then the other took effect too.
C3_Witness ==
    /\ Len(hdr_hist) >= 2
    /\ HeaderNameOf(hdr_hist[1].name) = HeaderNameOf(hdr_hist[2].name)
    /\ hdr_hist[1].fn = "append_http_header"
    /\ hdr_hist[2].fn = "append_http_header"
    /\ \E t \in HdrTasks : hdr_pc[t] = "unlock"
    /\ \E t \in HdrTasks : hdr_pc[t] = "lock"

\* C4: insert_http_header(k, v) returns None if k had no value and else the
\* first value k had; afterwards k has the single value v and every other
\* name has the values it had.
C4_InsertReplacesReturnsFirst ==
    hdr_last.fn = "insert_http_header" =>
        LET k == HeaderNameOf(hdr_last.name)
        IN  /\ hdr_last.before[k] = <<>> => hdr_last.ret = None
            /\ hdr_last.before[k] # <<>> => hdr_last.ret = Some(hdr_last.before[k][1])
            /\ http_headers[k] = <<hdr_last.value>>
            /\ \A o \in HeaderKeys \ {k} : http_headers[o] = hdr_last.before[o]

\* An insert took effect on a name that had two values.
C4_Witness ==
    /\ hdr_last.fn = "insert_http_header"
    /\ Len(hdr_last.before[HeaderNameOf(hdr_last.name)]) = 2
    /\ hdr_last.before[HeaderNameOf(hdr_last.name)][1] #
           hdr_last.before[HeaderNameOf(hdr_last.name)][2]

\* C5: append_http_header(k, v) returns false if k had no value and true if
\* it had one; afterwards k has its previous values in their order followed
\* by v, http_header_contains(k) is true, and every other name has the
\* values it had.
C5_AppendKeepsReturnsExisted ==
    hdr_last.fn = "append_http_header" =>
        LET k == HeaderNameOf(hdr_last.name)
        IN  /\ hdr_last.ret = (Len(hdr_last.before[k]) >= 1)
            /\ http_headers[k] = hdr_last.before[k] \o <<hdr_last.value>>
            /\ MapContainsKey(http_headers[k]).ret
            /\ \A o \in HeaderKeys \ {k} : http_headers[o] = hdr_last.before[o]

\* An append took effect on a name that had a value, under another spelling
\* of the name, while another name had a value as well.
C5_Witness ==
    /\ hdr_last.fn = "append_http_header"
    /\ hdr_last.name = "Set-Cookie"
    /\ hdr_last.before["set-cookie"] # <<>>
    /\ hdr_last.before["custom-header"] # <<>>
    /\ hdr_last.ret = TRUE

(***************************************************************************)
(* Claims about the Data maps, checked under SpecData.                     *)
(***************************************************************************)
DataOf(scope) == IF scope = "schema" THEN schema_data ELSE ctx_data

Held(map, D) == {e \in map : e.key = TypeIdOf(D)}

Holds(map, D) == Held(map, D) # {}

InsertsOf(scope, D) ==
    {i \in 1..Len(inserted) : inserted[i].scope = scope /\ inserted[i].type = D}

LastInsertOf(scope, D) ==
    inserted[CHOOSE i \in InsertsOf(scope, D) : \A j \in InsertsOf(scope, D) : j <= i]

Called(f, D) == data_res[f][D] # NotCalled

\* C6: data_opt::<D>() returns the per-query value of D whenever the per-query
\* Data holds one, else the schema-wide value when the schema-wide Data holds
\* one, and None when neither does.
C6_DataOptPrecedence ==
    \A D \in DataTypes :
        Called("data_opt", D) =>
            LET r == data_res["data_opt"][D].opt
            IN  /\ Holds(ctx_data, D) =>
                    /\ r.some
                    /\ Held(ctx_data, D) = {[key |-> TypeIdOf(D), value |-> Box(D, r.v)]}
                /\ (~Holds(ctx_data, D) /\ Holds(schema_data, D)) =>
                    /\ r.some
                    /\ Held(schema_data, D) = {[key |-> TypeIdOf(D), value |-> Box(D, r.v)]}
                /\ (~Holds(ctx_data, D) /\ ~Holds(schema_data, D)) => r = None

\* data_opt was called for a type that both maps hold with different values.
C6_Witness ==
    \E D \in DataTypes :
        /\ Called("data_opt", D)
        /\ Holds(ctx_data, D)
        /\ Holds(schema_data, D)
        /\ Held(ctx_data, D) # Held(schema_data, D)

\* C7: after any sequence of Data::insert calls a map holds at most one value
\* per type, the value of a type is the one of its most recent insert, and
\* an insert of one type leaves every other type's value as it was.
C7_InsertReplaces ==
    \A scope \in DataScopes, D \in DataTypes :
        /\ Cardinality(Held(DataOf(scope), D)) <= 1
        /\ InsertsOf(scope, D) = {} => Held(DataOf(scope), D) = {}
        /\ InsertsOf(scope, D) # {} =>
               Held(DataOf(scope), D) =
                   {[key |-> TypeIdOf(D), value |-> Box(D, LastInsertOf(scope, D).val)]}

\* One map received a D, then another type, then a different D.
C7_Witness ==
    \E scope \in DataScopes, D \in DataTypes, E \in DataTypes :
        /\ D # E
        /\ Len(inserted) = 3
        /\ \A i \in 1..3 : inserted[i].scope = scope
        /\ inserted[1].type = D /\ inserted[2].type = E /\ inserted[3].type = D
        /\ inserted[1].val # inserted[3].val

C8_Results ==
    \A D \in DataTypes :
        IF ~Holds(ctx_data, D) /\ ~Holds(schema_data, D)
        THEN /\ Called("data", D) =>
                    /\ data_res["data"][D].kind = "Err"
                    /\ \E i \in DOMAIN data_res["data"][D].message :
                           data_res["data"][D].message[i] = TypeName(D)
             /\ Called("data_unchecked", D) => data_res["data_unchecked"][D].kind = "Panic"
        ELSE \E x \in DataVals :
                /\ \E scope \in DataScopes :
                       [key |-> TypeIdOf(D), value |-> Box(D, x)] \in DataOf(scope)
                /\ Called("data", D) => data_res["data"][D] = [kind |-> "Ok", v |-> x]
                /\ Called("data_unchecked", D) =>
                       data_res["data_unchecked"][D] = [kind |-> "Ok", v |-> x]
                /\ Called("data_opt", D) => data_res["data_opt"][D].opt = Some(x)

\* C8: with D in neither map data::<D>() returns an error whose message names
\* D and data_unchecked::<D>() panics; with D in either map data,
\* data_unchecked and data_opt return the same value; no call of the three
\* changes either map.
C8_DataAccessors ==
    /\ []C8_Results
    /\ [][data_phase = "exec" => UNCHANGED <<schema_data, ctx_data>>]_vars

\* All three accessors were called for an absent type and for a present one.
C8_Witness ==
    \E D \in DataTypes, E \in DataTypes :
        /\ ~Holds(ctx_data, D) /\ ~Holds(schema_data, D)
        /\ Called("data", D) /\ Called("data_unchecked", D) /\ Called("data_opt", D)
        /\ Holds(schema_data, E)
        /\ Called("data", E) /\ Called("data_unchecked", E) /\ Called("data_opt", E)

(***************************************************************************)
(* Claims about is_skip, checked under SpecSkip.                           *)
(***************************************************************************)
IsCondition(d) == d.name \in {"skip", "include"}

\* The Boolean the if argument of d resolves to, if it does.
IfOf(d) ==
    LET arg == GetArgument(d, "if")
        resolved == ResolveInputValue(arg.v)
    IN  IF arg.some /\ resolved.kind = "Ok" /\ resolved.v.kind = "Boolean"
        THEN Some(resolved.v.b) ELSE None

AsksOmission(d) ==
    \/ d.name = "skip" /\ IfOf(d) = Some(TRUE)
    \/ d.name = "include" /\ IfOf(d) = Some(FALSE)

\* C9: when every skip / include directive of the list has an if that
\* resolves to a Boolean, is_skip returns Ok(true) iff some @skip has a true
\* if or some @include a false one; other directives do not count, and the
\* empty list gives Ok(false).
C9_IsSkipResult ==
    (/\ skip_res # SkipNotCalled
     /\ \A i \in 1..Len(directives) : IsCondition(directives[i]) => IfOf(directives[i]).some)
    => skip_res.ret = Ok(\E i \in 1..Len(directives) : AsksOmission(directives[i]))

\* is_skip ran on a list whose first directive is none of the two and whose
\* second is an @include with a variable that is false.
C9_Witness ==
    /\ skip_res.ret = Ok(TRUE)
    /\ Len(directives) = 2
    /\ directives[1].name = "ifdef"
    /\ directives[2].name = "include"
    /\ GetArgument(directives[2], "if") = Some(Positioned(Pos(1, 21), Variable("x")))

\* The first directive is_skip stops at for want of an if: a @skip or
\* @include without the argument, no earlier directive asking for omission
\* or failing.
ReachedWithoutIf(i) ==
    /\ IsCondition(directives[i])
    /\ ~GetArgument(directives[i], "if").some
    /\ \A j \in 1..(i - 1) :
           IsCondition(directives[j]) =>
               IfOf(directives[j]).some /\ ~AsksOmission(directives[j])

Names(message, part) == \E k \in DOMAIN message : message[k] = part

\* C10: when is_skip reaches a @skip or @include without an if argument it
\* returns an error, not a Boolean: the message names the directive and the
\* argument if, the position is that of the directive.
C10_MissingIfIsError ==
    \A i \in 1..Len(directives) :
        (skip_res # SkipNotCalled /\ ReachedWithoutIf(i)) =>
            /\ skip_res.ret.kind = "Err"
            /\ Names(skip_res.ret.message, directives[i].name)
            /\ Names(skip_res.ret.message, "if")
            /\ skip_res.ret.pos = directives[i].pos

\* is_skip ran on a list whose second directive is a @skip without if, after
\* an @include that did not ask for omission.
C10_Witness ==
    /\ skip_res # SkipNotCalled
    /\ Len(directives) = 2
    /\ directives[1].name = "include"
    /\ IfOf(directives[1]) = Some(TRUE)
    /\ directives[2].name = "skip"
    /\ ReachedWithoutIf(2)

\* A @skip or @include whose if is missing, is an undefined variable or is
\* no Boolean.
Faulty(d) == IsCondition(d) /\ ~IfOf(d).some

\* The first directive that asks for omission or is faulty: where is_skip
\* must stop.
Decisive(i) ==
    /\ AsksOmission(directives[i]) \/ Faulty(directives[i])
    /\ \A j \in 1..(i - 1) : ~AsksOmission(directives[j]) /\ ~Faulty(directives[j])

\* The error directive d gives: at the directive when if is missing, at the
\* value of if otherwise.
ErrorOf(ret, d) ==
    /\ ret.kind = "Err"
    /\ ret.pos = IF GetArgument(d, "if").some THEN GetArgument(d, "if").v.pos ELSE d.pos

\* C11: is_skip looks at the directives in document order and returns
\* Ok(true) at the first one that asks for omission, looking at none after
\* it, so that a faulty @skip / @include further on gives no error; a faulty
\* directive before the first omitting one makes is_skip return its error.
C11_FirstOmissionShortCircuits ==
    \A i \in 1..Len(directives) :
        (skip_res # SkipNotCalled /\ Decisive(i)) =>
            /\ skip_res.looked = i
            /\ AsksOmission(directives[i]) => skip_res.ret = Ok(TRUE)
            /\ Faulty(directives[i]) => ErrorOf(skip_res.ret, directives[i])

\* is_skip returned Ok(true) at a first directive @skip(if: true) that is
\* followed by a @include without if.
C11_Witness ==
    /\ skip_res.ret = Ok(TRUE)
    /\ skip_res.looked = 1
    /\ Len(directives) = 2
    /\ directives[1].name = "skip"
    /\ IfOf(directives[1]) = Some(TRUE)
    /\ directives[2].name = "include"
    /\ Faulty(directives[2])

(***************************************************************************)
(* Claims about param_value, checked under SpecParam.                      *)
(***************************************************************************)
ParamCalled == param_res # ParamNotCalled

\* The argument the last call asked for, as the field carries it.
ParamArgument == FieldGetArgument(param_field, param_res.name)

MadeCall(call) == \E k \in DOMAIN param_res.calls : param_res.calls[k] = call

\* C12: on a field without the argument, param_value with a default function
\* returns Ok(default()) and does nothing else: it resolves no value, so it
\* reads neither the variables nor their definitions; when the field has the
\* argument the default function is not called, whatever the value is.
C12_DefaultOnlyWhenAbsent ==
    ParamCalled =>
        /\ (~ParamArgument.some /\ param_res.default.some) =>
               /\ param_res.ret = Ok(param_res.default.v)
               /\ param_res.calls = <<"get_argument", "default">>
        /\ ParamArgument.some => ~MadeCall("default")

\* param_value returned the default on a field without the argument, in a
\* query that defines variables.
C12_Witness ==
    /\ ParamCalled
    /\ ~ParamArgument.some
    /\ param_res.type = "Boolean"
    /\ param_res.default.some
    /\ param_res.ret = Ok(TRUE)
    /\ variable_definitions # <<>>

\* C13: every failure of param_value is an error at the source position of
\* the argument.
C13_ErrorsAtArgument ==
    (ParamCalled /\ param_res.ret.kind = "Err") =>
        /\ ParamArgument.some
        /\ param_res.ret.pos = ParamArgument.v.pos

(***************************************************************************)
(* Claims about descents and paths, checked under SpecContext.             *)
(***************************************************************************)
MadeBy(fn) == {k \in 1..Len(ctxs) : ctx_made[k].fn = fn}

\* The context the call that made ctxs[k] was made on.
Creator(k) == ctxs[ctx_made[k].on]

\* The path node a parent reference leads to.
Deref(ref) == IF ref.some THEN ctxs[ref.v].path_node ELSE None

\* No context returned before ctxs[k] has its current id.
FreshId(k) ==
    /\ ctxs[k].resolve_id.current # RootResolveId.current
    /\ \A j \in 1..(k - 1) : ctxs[j].resolve_id.current # ctxs[k].resolve_id.current

\* C15: the child with_field(f) returns has the segment Name(alias of f if
\* it has one, else its name), the path node of the creating context as
\* parent (none at the root), the creating context's current id as parent
\* id and a fresh current id; with_index(i) likewise with the segment
\* Index(i), and the child keeps the selection-set item of its creator.
C15_ChildOfDescent ==
    /\ \A k \in MadeBy("with_field") \cup MadeBy("with_index") :
           /\ ctxs[k].path_node.some
           /\ Deref(ctxs[k].path_node.v.parent) = Creator(k).path_node
           /\ ctxs[k].resolve_id.parent = Some(Creator(k).resolve_id.current)
           /\ FreshId(k)
    /\ \A k \in MadeBy("with_field") :
           LET f == ctx_made[k].arg
           IN  /\ ctxs[k].path_node.v.segment =
                      [kind |-> "Name", name |-> IF f.alias.some THEN f.alias.v ELSE f.name]
               /\ ctxs[k].item = FieldItem(f)
    /\ \A k \in MadeBy("with_index") :
           /\ ctxs[k].path_node.v.segment = [kind |-> "Index", idx |-> ctx_made[k].arg]
           /\ ctxs[k].item = Creator(k).item
           /\ ctxs[k].item.kind = "SelectionSet"

\* with_index was called on the selection set of an aliased field below the
\* root, and with_field on the root.
C15_Witness ==
    /\ Len(ctxs) = 4
    /\ ctx_made[2].fn = "with_field" /\ ctx_made[2].on = 1 /\ ctx_made[2].arg.alias.some
    /\ ctx_made[3].fn = "with_selection_set" /\ ctx_made[3].on = 2
    /\ ctx_made[4].fn = "with_index" /\ ctx_made[4].on = 3 /\ ctx_made[4].arg = 12

\* The contexts with_selection_set returned are those of their creators but
\* for the item.
C16_SameContext ==
    \A k \in MadeBy("with_selection_set") :
        /\ ctxs[k].path_node = Creator(k).path_node
        /\ ctxs[k].resolve_id = Creator(k).resolve_id
        /\ ctxs[k].item = SelectionSetItem(ctx_made[k].arg)

\* A step that is a with_selection_set call.
IsWithSelectionSetStep ==
    /\ Len(ctxs') = Len(ctxs) + 1
    /\ ctx_made'[Len(ctxs')].fn = "with_selection_set"

\* C16: with_selection_set returns a context with the path node and the
\* resolve id, parent and current, of the context it was called on, and
\* leaves the shared counter as it was; only the item is new.
C16_SelectionSetKeepsPathAndId ==
    /\ []C16_SameContext
    /\ [][IsWithSelectionSetStep => inc_resolve_id' = inc_resolve_id]_vars

\* with_selection_set was called on a field context below the root, after
\* the counter had moved.
C16_Witness ==
    /\ Len(ctxs) >= 3
    /\ ctx_made[2].fn = "with_field"
    /\ ctx_made[3].fn = "with_selection_set" /\ ctx_made[3].on = 2
    /\ ctxs[3].resolve_id = [parent |-> Some(0), current |-> 1]
    /\ inc_resolve_id = 1

\* The decimal numerals of the indexes of the model.
Numeral == [idx \in Indexes |-> IF idx = 0 THEN "0" ELSE "12"]

\* The descents from the root to ctxs[k], one entry per with_field (the
\* response key) and per with_index (the numeral), root first.
RECURSIVE Descents(_)
Descents(k) ==
    LET made == ctx_made[k]
    IN  IF made.fn = "root" THEN <<>>
        ELSE IF made.fn = "with_selection_set" THEN Descents(made.on)
        ELSE IF made.fn = "with_field"
        THEN Append(Descents(made.on),
                    IF made.arg.alias.some THEN made.arg.alias.v ELSE made.arg.name)
        ELSE Append(Descents(made.on), Numeral[made.arg])

\* The strings joined by ".".
RECURSIVE Joined(_)
Joined(strs) ==
    IF Len(strs) = 0 THEN ""
    ELSE IF Len(strs) = 1 THEN strs[1]
    ELSE strs[1] \o "." \o Joined(Tail(strs))

\* C17: to_string_vec on the path node of a context gives one string per
\* with_field and with_index descent that led from the root to it, root
\* first, an index as its decimal numeral; Display gives them joined by ".".
\* A context reached by with_selection_set descents alone has no path node.
C17_PathIsDescents ==
    /\ ctx_path # NoPathCall =>
           /\ ctx_path.vec = Descents(ctx_path.on)
           /\ ctx_path.display = Joined(Descents(ctx_path.on))
    /\ \A k \in 1..Len(ctxs) : ctxs[k].path_node.some <=> Descents(k) # <<>>

\* The path of a context three descents down was materialized: a field, a
\* selection set, the index 12.
C17_Witness ==
    /\ ctx_path # NoPathCall
    /\ Len(ctx_path.vec) = 2
    /\ ctx_path.vec[2] = "12"
    /\ ctx_made[ctx_path.on].fn = "with_index"
    /\ \E k \in 1..Len(ctxs) : ctx_made[k].fn = "with_selection_set"

(***************************************************************************)
(* Claims about the JSON conversion and rendering, checked under SpecConv. *)
(***************************************************************************)
\* The values inside v, v itself among them.
RECURSIVE NodesOf(_)
NodesOf(v) ==
    {v} \cup
    (CASE v.kind = "List" -> UNION {NodesOf(v.items[k]) : k \in DOMAIN v.items}
       [] v.kind = "Object" -> UNION {NodesOf(v.map[key]) : key \in DOMAIN v.map}
       [] OTHER -> {})

Contains(v, kind) == \E node \in NodesOf(v) : node.kind = kind

IntoJsonCalled == conv_input.some /\ conv_json # NotCalled

\* ConstValue to JSON and back gave the value.
RoundTrips ==
    /\ conv_json.kind = "Ok"
    /\ conv_back # NotCalled => conv_back = Ok(conv_input.v)

\* C18 as stated: for every ConstValue v that is not an Enum,
\* from_json(into_json(v)) succeeds and returns v.
C18_RoundTripOfNonEnum ==
    (conv_type = "ConstValue" /\ IntoJsonCalled /\ conv_input.v.kind # "Enum")
        => RoundTrips

\* C18, amended: for every ConstValue v with no Enum at any depth,
\* from_json(into_json(v)) succeeds and returns v.
C18_RoundTripWithoutEnum ==
    (conv_type = "ConstValue" /\ IntoJsonCalled /\ ~Contains(conv_input.v, "Enum"))
        => RoundTrips

\* An object inside a list, with a number and a string, went to JSON and
\* back.
C18_Witness ==
    /\ conv_type = "ConstValue"
    /\ conv_input.some
    /\ conv_input.v.kind = "List"
    /\ Contains(conv_input.v, "Object")
    /\ Contains(conv_input.v, "Number")
    /\ Contains(conv_input.v, "String")
    /\ ~Contains(conv_input.v, "Enum")
    /\ conv_back = Ok(conv_input.v)

\* C19 as stated: into_json and to_string on a Value that is or contains a
\* Variable both fail.
C19_VariableHasNoOutput ==
    (conv_input.some /\ Contains(conv_input.v, "Variable")) =>
        /\ conv_json # NotCalled => conv_json.kind = "Err"
        /\ conv_text # NotCalled => conv_text.kind = "Err"

\* The characters of text from place k on start with those of part.
HasAt(text, k, part) ==
    /\ k + Len(part) - 1 <= Len(text)
    /\ \A i \in DOMAIN part : text[k + i - 1] = part[i]

\* C19, amended: into_json on a Value that is or contains a Variable fails
\* with "cannot serialize variable"; to_string does not fail, it writes the
\* variable as $ and its name.
C19_VariableNotSerialized ==
    (conv_input.some /\ Contains(conv_input.v, "Variable")) =>
        /\ conv_json # NotCalled => conv_json = Error(<<"cannot serialize variable">>)
        /\ conv_text # NotCalled =>
               /\ conv_text.kind = "Ok"
               /\ \E k \in DOMAIN conv_text.v : HasAt(conv_text.v, k, <<"$", "x">>)

\* A Value with a variable inside an object inside a list was serialized
\* and rendered.
C19_Witness ==
    /\ conv_input.some
    /\ conv_input.v.kind = "List"
    /\ Contains(conv_input.v, "Object")
    /\ Contains(conv_input.v, "Variable")
    /\ conv_json.kind = "Err"
    /\ conv_text.kind = "Ok"

\* The keys of the model's JSON objects that are no names.
NotNames == {<<"1", "a">>, <<>>}

\* The JSON values inside j, j itself among them.
RECURSIVE JsonNodesOf(_)
JsonNodesOf(j) ==
    {j} \cup
    (CASE j.json = "array" -> UNION {JsonNodesOf(j.items[k]) : k \in DOMAIN j.items}
       [] j.json = "object" -> UNION {JsonNodesOf(j.map[key]) : key \in DOMAIN j.map}
       [] OTHER -> {})

HasKeyNoName(j) ==
    \E node \in JsonNodesOf(j) : node.json = "object" /\ DOMAIN node.map \cap NotNames # {}

\* C20: a value from_json returns has no Enum and no Variable at any depth,
\* and from_json fails when some object key at any depth is no valid name.
C20_FromJsonResult ==
    conv_back # NotCalled =>
        /\ conv_back.kind = "Ok" =>
               ~Contains(conv_back.v, "Enum") /\ ~Contains(conv_back.v, "Variable")
        /\ HasKeyNoName(conv_json.v) => conv_back.kind = "Err"

\* from_json failed on a JSON object whose inner object has a key that
\* starts with a digit and a key that is a name.
C20_Witness ==
    /\ conv_input = None
    /\ conv_back.kind = "Err"
    /\ conv_json.v.json = "object"
    /\ \E key \in DOMAIN conv_json.v.map :
           /\ conv_json.v.map[key].json = "object"
           /\ {<<"1", "a">>, <<"a">>} \subseteq DOMAIN conv_json.v.map[key].map

(***************************************************************************)
(* Claims about the substitution deserializer, checked under SpecDeser.    *)
(***************************************************************************)
\* The value with every variable replaced by what the lookup returns for
\* it; a variable the lookup knows nothing of is left.
RECURSIVE Substituted(_, _)
Substituted(v, lookup) ==
    CASE v.kind = "Variable" ->
            IF lookup[v.name].some THEN lookup[v.name].v ELSE v
      [] v.kind = "List" ->
            List([k \in DOMAIN v.items |-> Substituted(v.items[k], lookup)])
      [] v.kind = "Object" ->
            Object([key \in DOMAIN v.map |-> Substituted(v.map[key], lookup)])
      [] OTHER -> v

AllBound(v, lookup) ==
    \A node \in NodesOf(v) : node.kind = "Variable" => lookup[node.name].some

\* C14: deserializing a Value through the ValueDeserializer gives what
\* deserializing the value does in which every variable, at any depth of
\* lists and objects, is replaced by what the lookup returns for it; when
\* the lookup returns nothing for a variable it is asked for, deserializing
\* fails with an error whose message names that variable.
C14_VariablesAreSubstituted ==
    de_out # DeNotCalled =>
        /\ AllBound(de_value, de_variables) =>
               de_out.ret = DeserializeConst(de_target, Substituted(de_value, de_variables))
        /\ \A k \in DOMAIN de_out.looked :
               ~de_variables[de_out.looked[k]].some =>
                   /\ de_out.ret.kind = "Err"
                   /\ Len(de_out.ret.message) = 3
                   /\ de_out.ret.message[1] = "variable "
                   /\ de_out.ret.message[2] = de_out.looked[k]

\* [$x, 5] with x bound to null was deserialized into a Vec<Option<i64>>:
\* None, then Some(5).
C14_Witness ==
    /\ de_target = Vec(Opt(I64))
    /\ de_value = List(<<Variable(<<"x">>), Number(5)>>)
    /\ de_variables[<<"x">>] = Some(Null)
    /\ de_out.ret = Ok(<<None, Some(5)>>)
    /\ de_out.looked = <<<<"x">>>>

(***************************************************************************)
(* Claims about the literal rendering of strings.                          *)
(***************************************************************************)
HexDigits == Digits \o <<"a", "b", "c", "d", "e", "f">>

RECURSIVE HexChars(_)
HexChars(n) ==
    IF n < 16 THEN <<HexDigits[n + 1]>>
    ELSE HexChars(n \div 16) \o <<HexDigits[(n % 16) + 1]>>

\* What the rendering of one character of a string has to be: the
\* two-character escapes, the codepoint of any other control character in
\* four hexadecimal digits, the character itself otherwise.
EscapeOf(c) ==
    CASE c = "\r" -> <<"\\", "r">>
      [] c = "\n" -> <<"\\", "n">>
      [] c = "\t" -> <<"\\", "t">>
      [] c = "\"" -> <<"\\", "\"">>
      [] c = "\\" -> <<"\\", "\\">>
      [] OTHER -> IF IsControl(c)
                  THEN <<"\\", "u">> \o PadZero(HexChars(AsciiCode(c)), 4)
                  ELSE <<c>>

DisplayedString == conv_text # NotCalled /\ conv_input.some /\ conv_input.v.kind = "String"

\* C21: the rendering of a String value is its characters between double
\* quotes, with \r, \n, \t, the double quote and the backslash as their
\* two-character escapes and every other control character as \u and its
\* codepoint in hexadecimal, padded with zeros to four digits.
C21_ControlCharsInHex ==
    DisplayedString =>
        conv_text = Ok(<<"\"">> \o Concat([k \in DOMAIN conv_input.v.s |->
                                               EscapeOf(conv_input.v.s[k])])
                              \o <<"\"">>)

(***************************************************************************)
(* Claims about the cache-control aggregate, checked under SpecCache.      *)
(***************************************************************************)
\* The annotations the visitor has to have merged: the object-level one of
\* each entered selection set whose current type is an Object, the one of
\* each entered field its parent type has.
MergedAt(k) ==
    LET e == cc_entered[k]
    IN  IF ~e.type.some THEN None
        ELSE LET type == RegistryTypes[e.type.v]
             IN  IF e.fn = "enter_selection_set"
                 THEN IF type.kind = "Object" THEN Some(type.cache_control) ELSE None
                 ELSE IF type.kind \in {"Object", "Interface"} /\
                         e.name \in DOMAIN type.fields
                      THEN Some(type.fields[e.name]) ELSE None

MergedAnnotations == {MergedAt(k).v : k \in {j \in DOMAIN cc_entered : MergedAt(j).some}}

ExplicitMaxAges == {a.max_age : a \in {m \in MergedAnnotations : m.max_age # 0}}

\* C22: after any sequence of entered selection sets and fields the
\* aggregate is public iff every merged annotation is public, and its
\* max_age is the least explicitly set max_age merged so far (0 while there
\* is none), so that what merges nothing leaves the aggregate as it was.
C22_AggregateOfMerged ==
    /\ cache_control.public <=> \A a \in MergedAnnotations : a.public
    /\ IF ExplicitMaxAges = {} THEN cache_control.max_age = 0
       ELSE /\ cache_control.max_age \in ExplicitMaxAges
            /\ \A age \in ExplicitMaxAges : cache_control.max_age <= age

\* The selection set of Timed (max_age 60), then the fields c (max_age 30)
\* and b (private) of Query were entered: private, max_age 30.
C22_Witness ==
    /\ Len(cc_entered) = 3
    /\ cc_entered[1] = [fn |-> "enter_selection_set", type |-> Some("Timed")]
    /\ cc_entered[2] = [fn |-> "enter_field", type |-> Some("Query"), name |-> "c"]
    /\ cc_entered[3] = [fn |-> "enter_field", type |-> Some("Query"), name |-> "b"]
    /\ cache_control = [public |-> FALSE, max_age |-> 30]

(***************************************************************************)
(* Claims about names, checked under SpecName.                             *)
(***************************************************************************)
NameStart == Range(UpperCase) \cup Range(LowerCase) \cup {"_"}

NameContinue == NameStart \cup Range(Digits)

\* s matches [_A-Za-z][_0-9A-Za-z]*
MatchesName(s) ==
    /\ s # <<>>
    /\ Head(s) \in NameStart
    /\ \A k \in DOMAIN Tail(s) : Tail(s)[k] \in NameContinue

\* C23: Name::is_valid(s) is true iff s matches [_A-Za-z][_0-9A-Za-z]*, and
\* Name::new(s) returns the name wrapping s when s is valid and the string s
\* itself as the error when it is not.
C23_ValidIffMatches ==
    /\ name_valid.some => (name_valid.v <=> MatchesName(name_input))
    /\ name_new # NotCalled =>
          name_new = IF MatchesName(name_input) THEN Ok(name_input)
                     ELSE [kind |-> "Err", v |-> name_input]

\* "1a_" is no name and Name::new gave the string back; is_valid said so.
C23_Witness ==
    /\ name_input = <<"1", "a", "_">>
    /\ name_valid = Some(FALSE)
    /\ name_new = [kind |-> "Err", v |-> <<"1", "a", "_">>]

(***************************************************************************)
(* Claims about selection_set(), checked under SpecSel and SpecSelFair.    *)
(***************************************************************************)
\* The fields selected by the items in document order, the fields of an
\* inline fragment and of a spread fragment of the table in its place.
RECURSIVE Flattened(_, _)
Flattened(fragments, items) ==
    IF items = <<>> THEN <<>>
    ELSE LET first == Head(items)
             here == CASE first.kind = "Field" -> <<first.name>>
                       [] first.kind = "InlineFragment" ->
                             Flattened(fragments, first.items)
                       [] first.kind = "FragmentSpread" ->
                             IF first.fragment_name \in DOMAIN fragments
                             THEN Flattened(fragments, fragments[first.fragment_name])
                             ELSE <<>>
         IN  here \o Flattened(fragments, Tail(items))

\* The place of the first call that returned None, 0 if there is none.
FirstEnd ==
    IF \A k \in DOMAIN sel_yielded : sel_yielded[k].some THEN 0
    ELSE CHOOSE k \in DOMAIN sel_yielded :
             ~sel_yielded[k].some /\ \A j \in 1..(k - 1) : sel_yielded[j].some

\* The names of the fields yielded before the first None.
YieldedNames ==
    LET n == IF FirstEnd = 0 THEN Len(sel_yielded) ELSE FirstEnd - 1
    IN  [k \in 1..n |-> sel_yielded[k].v.name]

\* C24: selection_set() yields the fields selected under the current
\* field in document order, the fields of every inline fragment and of
\* every spread fragment, looked up in the fragment table, in the place
\* of the fragment: what was yielded so far is the beginning of that
\* list, and all of it once the iterator has ended; only the iterator
\* changes.
C24_YieldsFlattened ==
    LET all == Flattened(sel_fragments, sel_items)
    IN  /\ Len(YieldedNames) <= Len(all)
        /\ YieldedNames = SubSeq(all, 1, Len(YieldedNames))
        /\ FirstEnd # 0 => YieldedNames = all

\* { a ...BC } with fragment BC { b c } was iterated to its end: a, b, c.
C24_Witness ==
    /\ sel_items = <<SelectedField("a", <<SelectedField("d", <<>>)>>),
                     FragmentSpread("BC")>>
    /\ sel_fragments = [name \in {"BC"} |->
                           <<SelectedField("b", <<>>), SelectedField("c", <<>>)>>]
    /\ FirstEnd = 4
    /\ YieldedNames = <<"a", "b", "c">>

\* The number of fields the items select, a spread of a fragment the
\* table lacks counting for none.
RECURSIVE FieldCount(_, _)
FieldCount(fragments, items) ==
    IF items = <<>> THEN 0
    ELSE LET first == Head(items)
             here == CASE first.kind = "Field" -> 1
                       [] first.kind = "InlineFragment" ->
                             FieldCount(fragments, first.items)
                       [] first.kind = "FragmentSpread" ->
                             IF first.fragment_name \in DOMAIN fragments
                             THEN FieldCount(fragments, fragments[first.fragment_name])
                             ELSE 0
         IN  here + FieldCount(fragments, Tail(items))

IterationEnded == FirstEnd # 0

C29_EndStays ==
    /\ \A k \in DOMAIN sel_yielded :
           ~sel_yielded[k].some => \A j \in k..Len(sel_yielded) : ~sel_yielded[j].some
    /\ IterationEnded => FirstEnd - 1 = FieldCount(sel_fragments, sel_items)

\* C29: with an acyclic fragment table the iteration ends: next() returns
\* None after as many fields as the items select, a spread of a fragment
\* the table lacks adding none, and every call after that returns None.
C29_IterationEnds == []C29_EndStays /\ <>IterationEnded

\* { ...Missing b } ended after the one field b, and the call after the
\* end returned None again.
C29_Witness ==
    /\ sel_items = <<FragmentSpread("Missing"), SelectedField("b", <<>>)>>
    /\ sel_yielded = <<Some(SelectedField("b", <<>>)), None, None>>

(***************************************************************************)
(* Claims about validator attributes, checked under SpecVal.               *)
(***************************************************************************)
\* The list is literals first and methods after them.
LitsThenMethods(nested) ==
    \A k \in DOMAIN nested : (nested[k].nested = "Lit") <=> (k <= LeadingLits(nested))

\* The method call a method item stands for: name is name(), name = value
\* is name(value), name(values) is itself.
MethodOf(item) ==
    LET meta == item.meta
    IN  MethodCall(meta.path,
                   CASE meta.meta = "Path" -> <<>>
                     [] meta.meta = "NameValue" -> <<Tokens(meta.lit)>>
                     [] meta.meta = "List" ->
                           [k \in DOMAIN meta.nested |-> Tokens(meta.nested[k].lit)])

\* C25: a validator in list form takes its leading literals as the
\* arguments of the constructor and every item after them as a method
\* call, all of them and in order: k literals and m methods give k
\* constructor arguments and m calls, MAC(colon = "true") gives
\* MAC::default().colon(true).
C25_AllItemsGenerated ==
    (val_expr # NotCalled /\ val_meta.meta = "List" /\ LitsThenMethods(val_meta.nested)) =>
        LET nested == val_meta.nested
            k == LeadingLits(nested)
        IN  /\ val_expr.kind = "Ok"
            /\ val_expr.v.constructor =
                   IF k = 0 THEN DefaultCall(val_meta.path)
                   ELSE NewCall(val_meta.path, [i \in 1..k |-> Tokens(nested[i].lit)])
            /\ val_expr.v.methods =
                   [i \in 1..(Len(nested) - k) |-> MethodOf(nested[k + i])]

(***************************************************************************)
(* Claims about the generated resolve_field, checked under SpecIface.      *)
(***************************************************************************)
IfaceCalled == iface_out # IfaceNotCalled

\* The integer literal given for the argument n, if there is one.
GivenN ==
    LET hits == {k \in DOMAIN iface_item.arguments : iface_item.arguments[k].name = "n"}
    IN  IF hits = {} THEN None
        ELSE LET node == iface_item.arguments[CHOOSE k \in hits : TRUE].value.node
             IN  IF node.kind = "Number" THEN Some(node.n) ELSE None

\* C26: resolve_field chooses the resolver by the name of the field, not
\* by its alias: id gives Some(the id) and add with n given gives
\* Some(the id + n), whatever the alias, the arguments fetched by
\* param_value before the with_selection_set context is made, the method
\* called and its result resolved under that context; a field of any
\* other name gives Ok(None).
C26_ResolverByName ==
    IfaceCalled =>
        /\ iface_item.name = "id" =>
              /\ iface_out.ret = Ok(Some(Number(iface_self)))
              /\ iface_out.steps = <<<<"with_selection_set">>, <<"call", "id">>,
                                     <<"resolve", "ctx_obj">>>>
        /\ (iface_item.name = "add" /\ GivenN.some) =>
              /\ iface_out.ret = Ok(Some(Number(iface_self + GivenN.v)))
              /\ iface_out.steps = <<<<"param_value", "n">>, <<"with_selection_set">>,
                                     <<"call", "add">>, <<"resolve", "ctx_obj">>>>
        /\ iface_item.name \notin {"id", "add"} =>
              iface_out = [ret |-> Ok(None), steps |-> <<>>]

\* `id: add(n: 5)` on the object of id 2 gave 7.
C26_Witness ==
    /\ iface_self = 2
    /\ iface_item.name = "add"
    /\ iface_item.alias = Some("id")
    /\ iface_out.ret = Ok(Some(Number(7)))

(***************************************************************************)
(* Claims about MaybeUndefined, checked under SpecMu.                      *)
(***************************************************************************)
\* The JSON the MaybeUndefined is read from: the value itself or the
\* entry a of the object, None if the object has no entry a.
MuJsonRead ==
    IF ~mu_in_struct THEN Some(mu_json.v)
    ELSE IF <<"a">> \in DOMAIN mu_json.v.map THEN Some(mu_json.v.map[<<"a">>])
    ELSE None

\* Deserializing never gives Undefined, gives Null on a null and on a
\* missing field and a Value on anything else it takes.
MuDeserializedDefined ==
    (mu_back # NotCalled /\ mu_back.kind = "Ok") =>
        /\ mu_back.v # Undefined
        /\ (~MuJsonRead.some \/ MuJsonRead.v = JsonNull) => mu_back.v = MuNull
        /\ (MuJsonRead.some /\ MuJsonRead.v.json = "number") =>
              mu_back.v = MuValue(IF mu_type = "i32" THEN MuJsonRead.v.n
                                  ELSE Some(MuJsonRead.v.n))

\* Undefined and Null are both serialized as null.
MuSerializedNull ==
    (mu_value.some /\ mu_json # NotCalled /\ mu_value.v.mu # "Value") =>
        MuJsonRead = Some(JsonNull)

MuRoundTripped == mu_value.some /\ mu_back # NotCalled

\* C27 as stated: deserializing never yields Undefined, null and a
\* missing field yield Null, a value yields Value(v), Undefined and Null
\* are serialized as null, and serializing then deserializing gives back
\* every Null and every Value(v) and turns Undefined into Null.
C27_RoundTripOfEveryValue ==
    /\ MuDeserializedDefined
    /\ MuSerializedNull
    /\ MuRoundTripped =>
          mu_back = Ok(IF mu_value.v = Undefined THEN MuNull ELSE mu_value.v)

\* The value inside serializes as null itself.
SerializesAsNull(value) ==
    value.mu = "Value" /\ SerializeT(mu_type, value.value) = JsonNull

\* C27, amended: the same, but serializing then deserializing gives back
\* a Value(v) only if v is not serialized as null itself; a Value(v) that
\* is, as Value(None) of MaybeUndefined<Option<i32>>, comes back as Null.
C27_RoundTripOfDefined ==
    /\ MuDeserializedDefined
    /\ MuSerializedNull
    /\ MuRoundTripped =>
          mu_back = Ok(IF mu_value.v = Undefined \/ SerializesAsNull(mu_value.v)
                       THEN MuNull ELSE mu_value.v)

\* A { a: Undefined } of MaybeUndefined<i32> was serialized as {"a": null}
\* and read back as A { a: Null }.
C27_Witness ==
    /\ mu_type = "i32"
    /\ mu_in_struct
    /\ mu_value = Some(Undefined)
    /\ mu_json = Ok(JsonObject([key \in {<<"a">>} |-> JsonNull]))
    /\ mu_back = Ok(MuNull)

(***************************************************************************)
(* Claims about the variables of an argument, checked under SpecParam.     *)
(***************************************************************************)
\* The first definition of the variable in the operation, if any.
DeclarationOf(name) ==
    LET hits == {k \in DOMAIN variable_definitions : variable_definitions[k].name = name}
    IN  IF hits = {} THEN None
        ELSE Some(variable_definitions[CHOOSE k \in hits : \A j \in hits : k <= j])

\* What param_value returns when the value is the one resolved for its
\* argument: the value parsed, a failure of the parse at the argument.
ResultWith(value) ==
    LET parsed == InputTypeParse(param_res.type, Some(value))
    IN  IF parsed.kind = "Err" THEN ServerErrorAt(parsed.message, ParamArgument.v.pos)
        ELSE parsed

ParamOfVariable ==
    ParamCalled /\ ParamArgument.some /\ ParamArgument.v.node.kind = "Variable"

\* C28: an argument that is the variable x resolves only if the operation
\* declares x: to the value the request supplies for x if there is one,
\* else to the default value of the declaration, else the result is the
\* error "Variable x is not defined." at the position of the argument
\* value; a value supplied for an undeclared x is not used, the error is
\* the same.
C28_VariableMustBeDeclared ==
    ParamOfVariable =>
        LET x == ParamArgument.v.node.name
            declaration == DeclarationOf(x)
        IN  param_res.ret =
                IF declaration.some /\ variables[x].some THEN ResultWith(variables[x].v)
                ELSE IF declaration.some /\ declaration.v.default_value.some
                THEN ResultWith(declaration.v.default_value.v)
                ELSE ServerErrorAt(<<"Variable ", x, " is not defined.">>,
                                   ParamArgument.v.pos)

\* flag: $x with x supplied as false in a request whose operation does not
\* declare x: the supplied value is not used.
C28_Witness ==
    /\ ParamOfVariable
    /\ param_res.name = "flag"
    /\ variable_definitions = <<>>
    /\ variables["x"] = Some(Boolean(FALSE))
    /\ param_res.ret = ServerErrorAt(<<"Variable ", "x", " is not defined.">>,
                                     ParamArgument.v.pos)

(***************************************************************************)
(* Claims about the tree of resolve ids, checked under SpecContext.        *)
(***************************************************************************)
\* The resolve ids in being: those of the contexts, and those
\* get_child_resolve_id has taken from the counter for a child under
\* construction.
ResolveIds ==
    {ctxs[k].resolve_id : k \in DOMAIN ctxs} \cup
    {ChildResolveId(ctxs[ctx_call[t].on], ctx_call[t].fetched) :
         t \in {u \in CtxTasks : ctx_pc[u] = "build"}}

AllocatedIds == {id.current : id \in {r \in ResolveIds : r.parent.some}}

\* Following parent ids from the id leads to the root id in at most the
\* given number of steps.
RECURSIVE ReachesRoot(_, _)
ReachesRoot(current, steps) ==
    \/ current = 0
    \/ /\ steps > 0
       /\ \E id \in ResolveIds :
              id.current = current /\ id.parent.some /\ ReachesRoot(id.parent.v, steps - 1)

\* C30: in a context tree built from the root (id 0, counter 0) by
\* with_field, with_index and with_selection_set, the ids allocated after
\* n allocations are 1..n, every resolve id but the root's has a parent id
\* smaller than its current id, and the parent ids lead from every
\* allocated id to the root id 0 in finitely many steps.
C30_ResolveIdTree ==
    /\ AllocatedIds = 1..inc_resolve_id
    /\ \A id \in ResolveIds :
           IF id.parent.some THEN id.parent.v < id.current
           ELSE id = [parent |-> None, current |-> 0]
    /\ \A current \in AllocatedIds : ReachesRoot(current, inc_resolve_id)

\* Two ids were allocated in a chain through a with_selection_set context:
\* 2 is below 1, the id the selection-set context took over, 1 below the
\* root.
C30_Witness ==
    /\ inc_resolve_id = 2
    /\ \A t \in CtxTasks : ctx_pc[t] = "resolving"
    /\ \E j \in MadeBy("with_selection_set"), k \in MadeBy("with_field") :
           /\ ctxs[j].resolve_id = [parent |-> Some(0), current |-> 1]
           /\ ctx_made[k].on = j
           /\ ctxs[k].resolve_id = [parent |-> Some(1), current |-> 2]

====
